---- MODULE Spec2Model ----
(***************************************************************************)
(* A model of the two-pass immediate-mode GUI engine of src/src/imgui.cpp  *)
(* (Group, InternalState, Run and the public element functions) and of the *)
(* input system of src/src/input.cpp (InputSystem::AdvanceFrame and the    *)
(* gamepad event queue).                                                   *)
(*                                                                         *)
(* vec2i values are pairs <<x, y>>.  The float pixel scale is kept as an   *)
(* exact fraction <<numerator, denominator>>.  Sequences are 1-based, so   *)
(* the cache entry with the C++ index i is elements_[i + 1]; element_idx_  *)
(* keeps the C++ (0-based) value and element_it_ is the 1-based position   *)
(* of the entry the iterator points at (Len(elements_) + 1 is end()).      *)
(***************************************************************************)
EXTENDS Integers, Sequences, FiniteSets, TLC

(***************************************************************************)
(* Bounds of the model.                                                    *)
(***************************************************************************)
MaxElements == 3

MaxDepth == 2

MaxChanges == 1

MaxRuns == 1

MaxChildren == 3

MaxFrames == 2

MaxEvents == 2

MaxPointers == 2

MaxReceivers == 2

MaxCalls == 3

(***************************************************************************)
(* Program constants.                                                      *)
(***************************************************************************)
ALIGN_TOPLEFT == 0

ALIGN_CENTER == 1

ALIGN_BOTTOMRIGHT == 2

LAYOUT_HORIZONTAL_TOP == 0

LAYOUT_HORIZONTAL_CENTER == 1

LAYOUT_HORIZONTAL_BOTTOM == 2

LAYOUT_VERTICAL_LEFT == 3

LAYOUT_VERTICAL_CENTER == 4

LAYOUT_VERTICAL_RIGHT == 5

IMGUI_DEFAULT_VIRTUAL_RESOLUTION == 1000

group_id == "__group__"

NULL == 0

kZeros2i == <<0, 0>>

(***************************************************************************)
(* The collaborators: the renderer's window size and the textures the      *)
(* material manager has loaded (name |-> pixel size).                      *)
(***************************************************************************)
window_size == <<1000, 1000>>

TextureNames == {"a", "b"}

TextureSize(name) == IF name = "a" THEN <<200, 100>> ELSE <<100, 100>>

(***************************************************************************)
(* The inputs the description procedure draws its calls from.              *)
(***************************************************************************)
ImageInputs == {<<"a", 50>>, <<"a", 40>>, <<"a", 30>>, <<"b", 40>>}

GroupInputs ==
  {<<LAYOUT_VERTICAL_LEFT, 20>>, <<LAYOUT_VERTICAL_CENTER, 0>>,
   <<LAYOUT_HORIZONTAL_BOTTOM, 20>>, <<LAYOUT_HORIZONTAL_TOP, 0>>}

CanvasSizes == {<<800, 600>>}

VirtualResolutions == {1000}

HorizontalLayouts == {LAYOUT_HORIZONTAL_CENTER}

VerticalLayouts == {LAYOUT_VERTICAL_RIGHT}

(***************************************************************************)
(* Arithmetic helpers: C++ int division truncates toward zero.             *)
(***************************************************************************)
Max(a, b) == IF a >= b THEN a ELSE b

Min(a, b) == IF a <= b THEN a ELSE b

FloorDiv(a, b) == a \div b

TruncDiv(a, b) == IF a >= 0 THEN a \div b ELSE -((-a) \div b)

VAdd(u, v) == <<u[1] + v[1], u[2] + v[2]>>

VSub(u, v) == <<u[1] - v[1], u[2] - v[2]>>

(***************************************************************************)
(* IsVertical, GetAlignment (imgui.cpp:28-36).                             *)
(***************************************************************************)
IsVertical(layout) == layout >= LAYOUT_VERTICAL_LEFT

GetAlignmentOfHorizontal(layout) == layout

GetAlignment(layout) ==
  layout - (IF IsVertical(layout)
              THEN LAYOUT_VERTICAL_LEFT - LAYOUT_HORIZONTAL_TOP
              ELSE 0)

(***************************************************************************)
(* class Group (imgui.cpp:40-63).  The h_ fields are history kept for the  *)
(* properties only: the position the group's cursor started from, the      *)
(* number of children placed or measured so far, the sum of their sizes    *)
(* along the stacking axis, whether the render pass found the group's      *)
(* placeholder, the read cursor before its StartGroup, whether the render  *)
(* pass added the group to the calls of the layout pass, and the position  *)
(* in the cache of the group's placeholder (0 for the root group and for a *)
(* group whose placeholder was not found).                                 *)
(***************************************************************************)
Group(vertical, align, spacing, element_idx) ==
  [vertical_ |-> vertical, align_ |-> align, spacing_ |-> spacing,
   size_ |-> kZeros2i, position_ |-> kZeros2i, element_idx_ |-> element_idx,
   h_origin |-> kZeros2i, h_n |-> 0, h_sum |-> 0, h_matched |-> TRUE,
   h_it |-> 0, h_ins |-> FALSE, h_elem |-> 0]

Extend(g, extension) ==
  [g EXCEPT !.size_ =
     IF g.vertical_
       THEN <<Max(g.size_[1], extension[1]),
              g.size_[2] + extension[2] +
                (IF g.size_[2] # 0 THEN g.spacing_ ELSE 0)>>
       ELSE <<g.size_[1] + extension[1] +
                (IF g.size_[1] # 0 THEN g.spacing_ ELSE 0),
              Max(g.size_[2], extension[2])>>]

(***************************************************************************)
(* The state.  state is the singleton pointer (NULL or the identity of an  *)
(* InternalState); group is the Group base of the InternalState, that is   *)
(* the group currently being laid out or rendered; the other engine        *)
(* variables are the members of InternalState.  pc is where control is:    *)
(* outside Run ("idle"), inside the first or the second invocation of      *)
(* gui_definition ("layout", "render"), or stopped by a failed assert      *)
(* ("aborted", failed naming the assert).  runs counts the calls of Run,   *)
(* instances the InternalState objects alive.                              *)
(*                                                                         *)
(* History kept for the properties: the calls gui_definition made in each  *)
(* pass, the elements the render pass positioned, the position rpc in      *)
(* layoutCalls the second invocation has come to, the number of calls it   *)
(* added and left out, and the size the root group had accumulated when    *)
(* the layout pass ended.                                                  *)
(***************************************************************************)
VARIABLES state, pc, failed, runs, instances,
          layout_pass_, elements_, element_it_, group_stack_, group,
          canvas_size_, virtual_resolution_, pixel_scale_,
          layoutCalls, renderCalls, placed, rpc, inserted, removed, ui_size,
          ext_group, ext_children,
          al_layout, al_dim, al_space, al_class, al_offset,
          in_pc, in_failed, mobile, frames_, polled,
          button_map_, pointers_, joystick_map_, sdl_joysticks,
          exit_requested_, window_size_arg,
          h_events, h_button_map, h_joystick_map,
          unhandled_java_input_events_, android_event_mutex, gamepad_map_,
          owner_pc, recv_pc, recv_event, receive_calls, gamepad_frames

engine == <<layout_pass_, elements_, element_it_, group_stack_, group,
            canvas_size_, virtual_resolution_, pixel_scale_>>

history == <<layoutCalls, renderCalls, placed, rpc, inserted, removed, ui_size>>

callHistory == <<layoutCalls, renderCalls, rpc, inserted, removed>>

gui == <<state, pc, failed, runs, instances, engine, history>>

(***************************************************************************)
(* For Group::Extend taken alone: a group and the sizes it has been        *)
(* extended with.                                                          *)
(***************************************************************************)
extend == <<ext_group, ext_children>>

(***************************************************************************)
(* For the classification of a layout selector and AlignDimension taken    *)
(* alone: the selector, the dimension and the space, the orientation and   *)
(* alignment the selector was classified into, and the offset computed.    *)
(***************************************************************************)
classify == <<al_layout, al_dim, al_space, al_class, al_offset>>

(***************************************************************************)
(* The InputSystem: where control is (in_pc: "constructed", "ready"        *)
(* between two calls of AdvanceFrame, "polling" inside its event loop,     *)
(* "aborted" with in_failed naming the assert), the build (mobile says     *)
(* whether PLATFORM_MOBILE is defined), the members, SDL's list of         *)
(* connected joysticks and the caller's window size AdvanceFrame is given. *)
(* polled counts the events of the current frame.  History kept for the    *)
(* properties: what the events polled in the current frame reported, and   *)
(* the buttons as they were when the frame began.                          *)
(***************************************************************************)
inputState == <<button_map_, pointers_, joystick_map_, sdl_joysticks,
                exit_requested_, window_size_arg>>

inputHistory == <<h_events, h_button_map, h_joystick_map>>

inputSystem == <<in_pc, in_failed, mobile, frames_, polled, inputState,
                 inputHistory>>

(***************************************************************************)
(* The queue of gamepad events, its mutex, the gamepads and the threads.   *)
(***************************************************************************)
gamepadQueue == <<unhandled_java_input_events_, android_event_mutex,
                  gamepad_map_, owner_pc, recv_pc, recv_event, receive_calls,
                  gamepad_frames>>

others == <<extend, classify, inputSystem, gamepadQueue>>

exceptExtend == <<gui, classify, inputSystem, gamepadQueue>>

exceptClassify == <<gui, extend, inputSystem, gamepadQueue>>

exceptInput == <<gui, extend, classify, gamepadQueue>>

exceptGamepad == <<gui, extend, classify, inputSystem>>

vars == <<gui, others>>

(***************************************************************************)
(* struct Element (imgui.cpp:74-80).                                       *)
(***************************************************************************)
Element(id, size) == [id |-> id, size |-> size]

(***************************************************************************)
(* The calls of the public interface, as gui_definition makes them.        *)
(***************************************************************************)
Call(fn, id, ysize, layout, spacing, canvas, vr, h, v) ==
  [fn |-> fn, id |-> id, ysize |-> ysize, layout |-> layout,
   spacing |-> spacing, canvas |-> canvas, vr |-> vr, h |-> h, v |-> v]

ImageCall(id, ysize) == Call("Image", id, ysize, 0, 0, kZeros2i, 0, 0, 0)

StartGroupCall(layout, spacing) ==
  Call("StartGroup", group_id, 0, layout, spacing, kZeros2i, 0, 0, 0)

EndGroupCall == Call("EndGroup", "", 0, 0, 0, kZeros2i, 0, 0, 0)

PositionUICall(canvas, vr, h, v) ==
  Call("PositionUI", "", 0, 0, 0, canvas, vr, h, v)

IsElementCall(c) == c.fn \in {"Image", "StartGroup"}

(***************************************************************************)
(* InternalState::SetScale (imgui.cpp:101-104): window_size / the virtual  *)
(* resolution, the smaller of the two quotients, as a fraction.            *)
(***************************************************************************)
SetScale(virtual_resolution) ==
  <<Min(window_size[1], window_size[2]), virtual_resolution>>

(***************************************************************************)
(* InternalState::AlignDimension (imgui.cpp:108-121); dim is 1 for x and   *)
(* 2 for y.                                                                *)
(***************************************************************************)
AlignDimensionAt(align, dim, space, d) ==
  IF d # dim THEN 0
  ELSE IF align = ALIGN_CENTER THEN TruncDiv(space[dim], 2)
  ELSE IF align = ALIGN_BOTTOMRIGHT THEN space[dim]
  ELSE 0

AlignDimension(align, dim, space) ==
  <<AlignDimensionAt(align, dim, space, 1),
    AlignDimensionAt(align, dim, space, 2)>>

(***************************************************************************)
(* InternalState::NextElement (imgui.cpp:152-165).  The result is the      *)
(* position of the entry returned (NULL for nullptr) and the value         *)
(* element_it_ is left with.                                               *)
(***************************************************************************)
RECURSIVE NextElementLoop(_, _, _, _)
NextElementLoop(elements, it, id, backup) ==
  IF it = Len(elements) + 1
    THEN [element |-> NULL, element_it_ |-> backup]
    ELSE IF elements[it].id = id
      THEN [element |-> it, element_it_ |-> it + 1]
      ELSE NextElementLoop(elements, it + 1, id, backup)

NextElementNoAdvance(elements, it, id) ==
  LET found == NextElementLoop(elements, it, id, it)
  IN IF found.element # NULL
       THEN [found EXCEPT !.element_it_ = found.element]
       ELSE found

NextElementNoRestore(elements, it, id) ==
  LET found == NextElementLoop(elements, it, id, it)
  IN IF found.element = NULL
       THEN [found EXCEPT !.element_it_ = Len(elements) + 1]
       ELSE found

NextElementFromStart(elements, it, id) ==
  NextElementLoop(elements, 1, id, it)

NextElement(elements, it, id) == NextElementLoop(elements, it, id, it)

(***************************************************************************)
(* InternalState::NewElement (imgui.cpp:168-170).                          *)
(***************************************************************************)
NewElementAtFront(elements, id, size) == <<Element(id, size)>> \o elements

NewElement(elements, id, size) == Append(elements, Element(id, size))

(***************************************************************************)
(* InternalState::Advance (imgui.cpp:174-178) and Position (182-186).      *)
(***************************************************************************)
AdvanceNoSpacing(g, size) ==
  [g EXCEPT !.position_ =
     VAdd(g.position_, IF g.vertical_ THEN <<0, size[2]>>
                                      ELSE <<size[1], 0>>)]

Advance(g, size) ==
  [g EXCEPT !.position_ =
     VAdd(g.position_, IF g.vertical_ THEN <<0, size[2] + g.spacing_>>
                                      ELSE <<size[1] + g.spacing_, 0>>)]

Position(g, element) ==
  VAdd(g.position_,
       AlignDimension(g.align_, IF g.vertical_ THEN 1 ELSE 2,
                      VSub(g.size_, element.size)))

(***************************************************************************)
(* The size Image computes in the layout pass (imgui.cpp:193-197): the     *)
(* aspect-preserving size at ysize, times the pixel scale, plus 0.5,       *)
(* truncated.                                                              *)
(***************************************************************************)
ImageSize(tex, ysize, scale) ==
  <<TruncDiv(2 * tex[1] * ysize * scale[1] + tex[2] * scale[2],
             2 * tex[2] * scale[2]),
    TruncDiv(2 * ysize * scale[1] + scale[2], 2 * scale[2])>>

(***************************************************************************)
(* History of a group: one more child of the given size has been measured  *)
(* or placed.                                                              *)
(***************************************************************************)
Touch(g, size) ==
  [g EXCEPT !.h_n = @ + 1,
            !.h_sum = @ + (IF g.vertical_ THEN size[2] ELSE size[1])]

(***************************************************************************)
(* The asserts: the constructor's assert(!state) (imgui.cpp:91), Gui()'s   *)
(* assert(state) (291), StartRenderPass's assert(!group_stack_.size())     *)
(* (141) and EndGroup's assert(group_stack_.size()) (233).  A failed       *)
(* assert stops the program.                                               *)
(***************************************************************************)
CtorAssertOff == TRUE

CtorAssert == state = NULL

GuiAssert == state # NULL

StartRenderPassAssertOff == TRUE

StartRenderPassAssert == Len(group_stack_) = 0

EndGroupAssert == Len(group_stack_) # 0

(***************************************************************************)
(* The test of the pass flag the element functions branch on               *)
(* (if (layout_pass_), imgui.cpp:126, 192, 218, 238).                      *)
(***************************************************************************)
InLayoutPassAlways == TRUE

InLayoutPass == layout_pass_

(***************************************************************************)
(* EndGroup's write of the group's size to its placeholder                 *)
(* (elements_[element_idx].size = size, imgui.cpp:243).                    *)
(***************************************************************************)
BackFillSkipped(elements, element_idx, size) == elements

BackFill(elements, element_idx, size) ==
  [elements EXCEPT ![element_idx + 1].size = size]

(***************************************************************************)
(* ~InternalState (imgui.cpp:96-98): the value it leaves in state.         *)
(***************************************************************************)
DestructorKeepsState == state

Destructor == NULL

(***************************************************************************)
(* What a read of elements_[0] of an empty vector may give                 *)
(* (StartRenderPass, imgui.cpp:143): any value, or a crash.                *)
(***************************************************************************)
GarbageSizes == {kZeros2i, <<-1, 77>>}

(***************************************************************************)
(* The index in calls of the EndGroup that closes the StartGroup at j, or  *)
(* Len(calls) when there is none; open counts the groups open after j.     *)
(***************************************************************************)
RECURSIVE MatchEndFrom(_, _, _)
MatchEndFrom(calls, j, open) ==
  IF j > Len(calls) THEN Len(calls)
  ELSE IF calls[j].fn = "EndGroup"
    THEN IF open = 1 THEN j ELSE MatchEndFrom(calls, j + 1, open - 1)
  ELSE IF calls[j].fn = "StartGroup" THEN MatchEndFrom(calls, j + 1, open + 1)
  ELSE MatchEndFrom(calls, j + 1, open)

MatchEnd(calls, j) == MatchEndFrom(calls, j + 1, 1)

(***************************************************************************)
(* The state before the first Run.                                         *)
(***************************************************************************)
NoEngine ==
  /\ layout_pass_ = TRUE
  /\ elements_ = <<>>
  /\ element_it_ = 0
  /\ group_stack_ = <<>>
  /\ group = Group(TRUE, ALIGN_TOPLEFT, 0, 0)
  /\ canvas_size_ = kZeros2i
  /\ virtual_resolution_ = 0
  /\ pixel_scale_ = <<0, 1>>

NoHistory ==
  /\ layoutCalls = <<>>
  /\ renderCalls = <<>>
  /\ placed = <<>>
  /\ rpc = 1
  /\ inserted = 0
  /\ removed = 0
  /\ ui_size = kZeros2i

ResetEngine ==
  /\ layout_pass_' = TRUE
  /\ elements_' = <<>>
  /\ element_it_' = 0
  /\ group_stack_' = <<>>
  /\ group' = Group(TRUE, ALIGN_TOPLEFT, 0, 0)
  /\ canvas_size_' = kZeros2i
  /\ virtual_resolution_' = 0
  /\ pixel_scale_' = <<0, 1>>

ResetHistory ==
  /\ layoutCalls' = <<>>
  /\ renderCalls' = <<>>
  /\ placed' = <<>>
  /\ rpc' = 1
  /\ inserted' = 0
  /\ removed' = 0
  /\ ui_size' = kZeros2i

GuiInit ==
  /\ state = NULL
  /\ pc = "idle"
  /\ failed = ""
  /\ runs = 0
  /\ instances = 0
  /\ NoEngine
  /\ NoHistory

(***************************************************************************)
(* A failed assert ends the process: the singleton pointer and the pass    *)
(* flag are as the failing call found them, and nothing else of the engine *)
(* is looked at again.                                                     *)
(***************************************************************************)
Stop(assert) ==
  /\ pc' = "aborted"
  /\ failed' = assert
  /\ elements_' = <<>>
  /\ element_it_' = 0
  /\ group_stack_' = <<>>
  /\ group' = Group(TRUE, ALIGN_TOPLEFT, 0, 0)
  /\ canvas_size_' = kZeros2i
  /\ virtual_resolution_' = 0
  /\ pixel_scale_' = <<0, 1>>
  /\ ResetHistory
  /\ UNCHANGED <<state, instances, layout_pass_>>

Abort(assert) == Stop(assert) /\ UNCHANGED runs

(***************************************************************************)
(* Run, up to the first invocation of gui_definition (imgui.cpp:260-269):  *)
(* the InternalState constructor (82-94).  Run can be called from outside  *)
(* or from inside gui_definition.                                          *)
(***************************************************************************)
RunBegin ==
  /\ pc \in {"idle", "layout", "render"}
  /\ pc = "idle" => runs < MaxRuns
  /\ runs' = runs + 1
  /\ IF CtorAssert
       THEN /\ state' = instances + 1
            /\ instances' = instances + 1
            /\ pc' = "layout"
            /\ failed' = ""
            /\ layout_pass_' = TRUE
            /\ elements_' = <<>>
            /\ element_it_' = 0
            /\ group_stack_' = <<>>
            /\ group' = Group(TRUE, ALIGN_TOPLEFT, 0, 0)
            /\ canvas_size_' = window_size
            /\ virtual_resolution_' = IMGUI_DEFAULT_VIRTUAL_RESOLUTION
            /\ pixel_scale_' = SetScale(IMGUI_DEFAULT_VIRTUAL_RESOLUTION)
            /\ ResetHistory
       ELSE Stop("InternalState")

(***************************************************************************)
(* gui_definition makes the call c.  In its second invocation the call is  *)
(* the next call of the first invocation, or a call the first invocation   *)
(* did not make (the EndGroup of a group that was added comes with the     *)
(* group).  The calls added and left out are at most MaxChanges.           *)
(***************************************************************************)
Made(c) ==
  IF pc = "layout"
    THEN /\ layoutCalls' = Append(layoutCalls, c)
         /\ UNCHANGED <<renderCalls, rpc, inserted, removed>>
  ELSE IF pc = "render"
    THEN /\ renderCalls' = Append(renderCalls, c)
         /\ UNCHANGED <<layoutCalls, removed>>
         /\ \/ /\ rpc <= Len(layoutCalls)
               /\ layoutCalls[rpc] = c
               /\ rpc' = rpc + 1
               /\ UNCHANGED inserted
            \/ /\ inserted + removed < MaxChanges
               /\ inserted' = inserted + 1
               /\ UNCHANGED rpc
            \/ /\ c.fn = "EndGroup"
               /\ group.h_ins
               /\ UNCHANGED <<rpc, inserted>>
    ELSE UNCHANGED callHistory

(***************************************************************************)
(* The layout pass declares at most MaxElements elements, or it is the     *)
(* one group of TestGUI (imgui.cpp:314-321): three images of heights 50,   *)
(* 40 and 30 in a vertical, left-aligned group with the spacing 20.        *)
(***************************************************************************)
Scenario ==
  <<PositionUICall(<<800, 600>>, 1000, LAYOUT_HORIZONTAL_CENTER,
                   LAYOUT_VERTICAL_RIGHT),
    StartGroupCall(LAYOUT_VERTICAL_LEFT, 20),
    ImageCall("a", 50), ImageCall("a", 40), ImageCall("a", 30),
    EndGroupCall>>

IsPrefix(s, t) == Len(s) <= Len(t) /\ s = SubSeq(t, 1, Len(s))

MayDeclare(c) ==
  \/ Len(elements_) < MaxElements
  \/ IsPrefix(Append(layoutCalls, c), Scenario)

FirstCallOfPass ==
  IF pc = "layout" THEN layoutCalls = <<>> ELSE renderCalls = <<>>

(***************************************************************************)
(* Image (imgui.cpp:293-296) and InternalState::Image (189-210).  The      *)
(* texture is one LoadTexture has loaded.                                  *)
(***************************************************************************)
Image(texture_name, ysize) ==
  /\ pc \in {"idle", "layout", "render"}
  /\ IF ~GuiAssert
       THEN Abort("Gui")
       ELSE
         /\ Made(ImageCall(texture_name, ysize))
         /\ UNCHANGED <<state, pc, failed, runs, instances, ui_size>>
         /\ IF InLayoutPass
              THEN LET size == ImageSize(TextureSize(texture_name), ysize,
                                         pixel_scale_)
                   IN /\ MayDeclare(ImageCall(texture_name, ysize))
                      /\ elements_' = NewElement(elements_, texture_name, size)
                      /\ group' = Touch(Extend(group, size), size)
                      /\ UNCHANGED <<layout_pass_, element_it_, group_stack_,
                                     canvas_size_, virtual_resolution_,
                                     pixel_scale_, placed>>
              ELSE LET ne == NextElement(elements_, element_it_, texture_name)
                   IN /\ element_it_' = ne.element_it_
                      /\ IF ne.element # NULL
                           THEN LET element == elements_[ne.element]
                                    position == Position(group, element)
                                IN /\ placed' = Append(placed,
                                        [kind |-> "image",
                                         elem |-> ne.element,
                                         pos |-> position,
                                         size |-> element.size])
                                   /\ group' = Touch(Advance(group, element.size),
                                                     element.size)
                           ELSE UNCHANGED <<placed, group>>
                      /\ UNCHANGED <<layout_pass_, elements_, group_stack_,
                                     canvas_size_, virtual_resolution_,
                                     pixel_scale_>>

(***************************************************************************)
(* StartGroup (imgui.cpp:298-300) and InternalState::StartGroup (214-228). *)
(***************************************************************************)
StartGroup(layout, spacing) ==
  /\ pc \in {"idle", "layout", "render"}
  /\ IF ~GuiAssert
       THEN Abort("Gui")
       ELSE
         /\ Len(group_stack_) < MaxDepth
         /\ Made(StartGroupCall(layout, spacing))
         /\ UNCHANGED <<state, pc, failed, runs, instances, ui_size>>
         /\ group_stack_' = Append(group_stack_, group)
         /\ LET new == [Group(IsVertical(layout), GetAlignment(layout),
                              spacing, Len(elements_))
                          EXCEPT !.h_it = element_it_,
                                 !.h_ins = (inserted' # inserted)]
            IN IF InLayoutPass
                 THEN /\ MayDeclare(StartGroupCall(layout, spacing))
                      /\ elements_' = NewElement(elements_, group_id, kZeros2i)
                      /\ group' = [new EXCEPT !.h_elem = Len(elements_) + 1]
                      /\ UNCHANGED <<element_it_, placed>>
                 ELSE LET ne == NextElement(elements_, element_it_, group_id)
                      IN /\ element_it_' = ne.element_it_
                         /\ UNCHANGED elements_
                         /\ IF ne.element # NULL
                              THEN LET element == elements_[ne.element]
                                       position == Position(group, element)
                                   IN /\ group' = [new EXCEPT
                                                     !.position_ = position,
                                                     !.size_ = element.size,
                                                     !.h_origin = position,
                                                     !.h_elem = ne.element]
                                      /\ placed' = Append(placed,
                                           [kind |-> "group",
                                            elem |-> ne.element,
                                            pos |-> position,
                                            size |-> element.size])
                              ELSE /\ group' = [new EXCEPT !.h_matched = FALSE]
                                   /\ UNCHANGED placed
         /\ UNCHANGED <<layout_pass_, canvas_size_, virtual_resolution_,
                        pixel_scale_>>

(***************************************************************************)
(* EndGroup (imgui.cpp:302-304) and InternalState::EndGroup (231-247).     *)
(***************************************************************************)
EndGroup ==
  /\ pc \in {"idle", "layout", "render"}
  /\ IF ~GuiAssert
       THEN Abort("Gui")
       ELSE
         IF ~EndGroupAssert
              THEN Abort("EndGroup")
              ELSE LET size == group.size_
                       element_idx == group.element_idx_
                       parent == group_stack_[Len(group_stack_)]
                   IN /\ Made(EndGroupCall)
                      /\ group_stack_' =
                           SubSeq(group_stack_, 1, Len(group_stack_) - 1)
                      /\ IF InLayoutPass
                           THEN /\ group' = Touch(Extend(parent, size), size)
                                /\ elements_' =
                                     BackFill(elements_, element_idx, size)
                           ELSE /\ group' = Touch(Advance(parent, size), size)
                                /\ UNCHANGED elements_
                      /\ UNCHANGED <<state, pc, failed, runs, instances,
                                     ui_size, placed, layout_pass_, element_it_,
                                     canvas_size_, virtual_resolution_,
                                     pixel_scale_>>

(***************************************************************************)
(* PositionUI (imgui.cpp:306-310) and InternalState::PositionUI (125-136). *)
(* gui_definition calls it before it declares any element.                 *)
(***************************************************************************)
PositionUI(canvas_size, virtual_resolution, horizontal, vertical) ==
  /\ pc \in {"idle", "layout", "render"}
  /\ IF ~GuiAssert
       THEN Abort("Gui")
       ELSE
         /\ FirstCallOfPass
         /\ Made(PositionUICall(canvas_size, virtual_resolution, horizontal,
                                vertical))
         /\ IF InLayoutPass
              THEN /\ canvas_size_' = canvas_size
                   /\ virtual_resolution_' = virtual_resolution
                   /\ pixel_scale_' = SetScale(virtual_resolution)
                   /\ UNCHANGED group
              ELSE LET space == VSub(canvas_size_, group.size_)
                       position ==
                         VAdd(group.position_,
                              VAdd(AlignDimension(GetAlignment(horizontal), 1,
                                                  space),
                                   AlignDimension(GetAlignment(vertical), 2,
                                                  space)))
                   IN /\ group' = [group EXCEPT !.position_ = position,
                                                !.h_origin = position]
                      /\ UNCHANGED <<canvas_size_, virtual_resolution_,
                                     pixel_scale_>>
         /\ UNCHANGED <<state, pc, failed, runs, instances, ui_size, placed,
                        layout_pass_, elements_, element_it_, group_stack_>>

(***************************************************************************)
(* The first invocation of gui_definition returns and Run goes on to the   *)
(* second (imgui.cpp:269-288): InternalState::StartRenderPass (139-147).   *)
(* With an empty cache the read of elements_[0] is undefined.              *)
(***************************************************************************)
StartRenderPassTo(size) ==
  /\ group' = [group EXCEPT !.size_ = size, !.h_n = 0, !.h_sum = 0]
  /\ ui_size' = group.size_
  /\ layout_pass_' = FALSE
  /\ element_it_' = 1
  /\ pc' = "render"
  /\ UNCHANGED <<state, failed, runs, instances, elements_, group_stack_,
                 canvas_size_, virtual_resolution_, pixel_scale_,
                 callHistory, placed>>

StartRenderPass ==
  /\ pc = "layout"
  /\ IF ~StartRenderPassAssert
       THEN Abort("StartRenderPass")
       ELSE \/ /\ elements_ # <<>>
               /\ StartRenderPassTo(elements_[1].size)
            \/ /\ elements_ = <<>>
               /\ \E garbage \in GarbageSizes : StartRenderPassTo(garbage)
            \/ /\ elements_ = <<>>
               /\ Abort("elements_[0]")

(***************************************************************************)
(* The second invocation of gui_definition leaves out a call the first     *)
(* one made: an Image, a group with all that is in it, a PositionUI or an  *)
(* EndGroup.                                                               *)
(***************************************************************************)
LeaveOut ==
  /\ pc = "render"
  /\ inserted + removed < MaxChanges
  /\ rpc <= Len(layoutCalls)
  /\ removed' = removed + 1
  /\ rpc' = IF layoutCalls[rpc].fn = "StartGroup"
              THEN MatchEnd(layoutCalls, rpc) + 1
              ELSE rpc + 1
  /\ UNCHANGED <<state, pc, failed, runs, instances, engine, layoutCalls,
                 renderCalls, placed, inserted, ui_size>>

(***************************************************************************)
(* The second invocation of gui_definition returns, and Run with it        *)
(* (imgui.cpp:288-289): ~InternalState (96-98).                            *)
(***************************************************************************)
RunReturn ==
  /\ pc = "render"
  /\ rpc = Len(layoutCalls) + 1
  /\ state' = Destructor
  /\ instances' = instances - 1
  /\ pc' = "idle"
  /\ ResetEngine
  /\ ResetHistory
  /\ UNCHANGED <<failed, runs>>

(***************************************************************************)
(* The input system (src/src/input.cpp), in a build without                *)
(* ANDROID_GAMEPAD; PLATFORM_MOBILE is set or not.                         *)
(*                                                                         *)
(* class Button: the fields, the constructor and AdvanceFrame are those of *)
(* input.h; Update is input.cpp:360-367.                                   *)
(***************************************************************************)
NewButton == [is_down_ |-> FALSE, went_down_ |-> FALSE, went_up_ |-> FALSE]

ButtonAdvanceFrame(button) ==
  [button EXCEPT !.went_down_ = FALSE, !.went_up_ = FALSE]

ButtonUpdate(button, down) ==
  [is_down_ |-> down,
   went_down_ |-> IF ~button.is_down_ /\ down THEN TRUE ELSE button.went_down_,
   went_up_ |-> IF ~(~button.is_down_ /\ down) /\ button.is_down_ /\ ~down
                  THEN TRUE ELSE button.went_up_]

(***************************************************************************)
(* JoystickAxis and JoystickHat (input.h): the value and the value of the  *)
(* frame before.  An axis value is value / kJoystickAxisRange, kept as the *)
(* fraction <<value, kJoystickAxisRange>>.                                 *)
(***************************************************************************)
kJoystickAxisRange == 32767

NewAxis == [value_ |-> <<0, 1>>, previous_value_ |-> <<0, 1>>]

NewHat == [value_ |-> kZeros2i, previous_value_ |-> kZeros2i]

ControlAdvanceFrame(control) == [control EXCEPT !.previous_value_ = control.value_]

ControlUpdate(control, new_value) == [control EXCEPT !.value_ = new_value]

(***************************************************************************)
(* InputSystem::ConvertHatToVector (input.cpp:216-241).                    *)
(***************************************************************************)
SDL_HAT_CENTERED == 0

SDL_HAT_UP == 1

SDL_HAT_RIGHT == 2

SDL_HAT_DOWN == 4

SDL_HAT_LEFT == 8

ConvertHatToVector(hat_enum) ==
  IF hat_enum = SDL_HAT_LEFT + SDL_HAT_UP THEN <<-1, -1>>
  ELSE IF hat_enum = SDL_HAT_UP THEN <<0, -1>>
  ELSE IF hat_enum = SDL_HAT_RIGHT + SDL_HAT_UP THEN <<1, -1>>
  ELSE IF hat_enum = SDL_HAT_LEFT THEN <<-1, 0>>
  ELSE IF hat_enum = SDL_HAT_CENTERED THEN <<0, 0>>
  ELSE IF hat_enum = SDL_HAT_RIGHT THEN <<1, 0>>
  ELSE IF hat_enum = SDL_HAT_LEFT + SDL_HAT_DOWN THEN <<-1, 1>>
  ELSE IF hat_enum = SDL_HAT_DOWN THEN <<0, 1>>
  ELSE IF hat_enum = SDL_HAT_RIGHT + SDL_HAT_DOWN THEN <<1, 1>>
  ELSE <<0, 0>>

(***************************************************************************)
(* class Joystick: GetButton, GetAxis, GetHat (input.cpp:369-388) resize   *)
(* the list to hold the index; AdvanceFrame (391-401).  The results are    *)
(* the joystick with the control at the index updated.                     *)
(***************************************************************************)
NewJoystick ==
  [sdl_joystick_ |-> NULL, button_list_ |-> <<>>, axis_list_ |-> <<>>,
   hat_list_ |-> <<>>]

Resize(list, index, fresh) ==
  IF index >= Len(list)
    THEN list \o [i \in 1 .. index + 1 - Len(list) |-> fresh]
    ELSE list

JoystickUpdateButton(joystick, button_index, down) ==
  LET list == Resize(joystick.button_list_, button_index, NewButton)
  IN [joystick EXCEPT !.button_list_ =
        [list EXCEPT ![button_index + 1] = ButtonUpdate(@, down)]]

JoystickUpdateAxis(joystick, axis_index, new_value) ==
  LET list == Resize(joystick.axis_list_, axis_index, NewAxis)
  IN [joystick EXCEPT !.axis_list_ =
        [list EXCEPT ![axis_index + 1] = ControlUpdate(@, new_value)]]

JoystickUpdateHat(joystick, hat_index, new_value) ==
  LET list == Resize(joystick.hat_list_, hat_index, NewHat)
  IN [joystick EXCEPT !.hat_list_ =
        [list EXCEPT ![hat_index + 1] = ControlUpdate(@, new_value)]]

JoystickAdvanceFrame(joystick) ==
  [joystick EXCEPT
     !.button_list_ = [i \in 1 .. Len(@) |-> ButtonAdvanceFrame(@[i])],
     !.axis_list_ = [i \in 1 .. Len(@) |-> ControlAdvanceFrame(@[i])],
     !.hat_list_ = [i \in 1 .. Len(@) |-> ControlAdvanceFrame(@[i])]]

(***************************************************************************)
(* struct Pointer (input.h) and the pointers_ vector, which holds          *)
(* MaxPointers pointers.                                                   *)
(***************************************************************************)
NewPointer ==
  [id |-> 0, mousepos |-> <<-1, -1>>, mousedelta |-> kZeros2i, used |-> FALSE]

(***************************************************************************)
(* The keys of button_map_: a keyboard key, and the keys of the pointer    *)
(* buttons, SDLK_POINTER1 + i for the pointer i (GetPointerButton,         *)
(* input.h).                                                               *)
(***************************************************************************)
SDLK_a == 97

SDLK_POINTER1 == 1000

GetPointerButton(i) == SDLK_POINTER1 + i

(***************************************************************************)
(* InputSystem::GetButton (input.cpp:253-258) followed by Update: the map  *)
(* with the button, inserted if it was not there, updated.                 *)
(***************************************************************************)
GetButton(map, button) ==
  [k \in DOMAIN map \cup {button} |->
     IF k \in DOMAIN map THEN map[k] ELSE NewButton]

UpdateButton(map, button, down) ==
  [GetButton(map, button) EXCEPT ![button] = ButtonUpdate(@, down)]

(***************************************************************************)
(* InputSystem::GetJoystick's assert (input.cpp:262).                      *)
(***************************************************************************)
GetJoystickAssert(map, joystick_id) == joystick_id \in DOMAIN map

(***************************************************************************)
(* InputSystem::RemovePointer (input.cpp:279-281) and FindPointer          *)
(* (283-298); i is the C++ index, found is false when assert(0) is         *)
(* reached.                                                                *)
(***************************************************************************)
RemovePointer(pointers, i) == [pointers EXCEPT ![i + 1].used = FALSE]

Least(S) == CHOOSE i \in S : \A j \in S : i <= j

FindPointer(pointers, id) ==
  LET known == {i \in 1 .. Len(pointers) :
                  pointers[i].used /\ pointers[i].id = id}
      free == {i \in 1 .. Len(pointers) : ~pointers[i].used}
  IN IF known # {}
       THEN [found |-> TRUE, i |-> Least(known) - 1, pointers |-> pointers]
     ELSE IF free # {}
       THEN [found |-> TRUE, i |-> Least(free) - 1,
             pointers |-> [pointers EXCEPT ![Least(free)].id = id,
                                           ![Least(free)].used = TRUE]]
     ELSE [found |-> FALSE, i |-> 0, pointers |-> pointers]

(***************************************************************************)
(* vec2i(v * vec2(window_size)) for a touch position or delta v, whose     *)
(* components are fractions <<numerator, denominator>> of the window.      *)
(***************************************************************************)
ToPixels(v, size) ==
  <<TruncDiv(v[1][1] * size[1], v[1][2]), TruncDiv(v[2][1] * size[2], v[2][2])>>

(***************************************************************************)
(* InputSystem::UpdateDragPosition (input.cpp:300-322).  listed says       *)
(* whether SDL_GetTouchFinger has the event's finger among the fingers of  *)
(* the touch device.  moved is the delta added to the pointer i.           *)
(***************************************************************************)
UpdateDragPosition(pointers, e, finger_up, size) ==
  IF e.listed
    THEN LET fp == FindPointer(pointers, e.fingerId)
             removed_ == IF finger_up THEN RemovePointer(fp.pointers, fp.i)
                                      ELSE fp.pointers
             moved == ToPixels(e.delta, size)
         IN [found |-> fp.found, i |-> fp.i, listed |-> TRUE, moved |-> moved,
             pointers |->
               IF fp.found
                 THEN [removed_ EXCEPT
                         ![fp.i + 1].mousepos = ToPixels(e.position, size),
                         ![fp.i + 1].mousedelta = VAdd(@, moved)]
                 ELSE pointers]
    ELSE [found |-> TRUE, i |-> 0, listed |-> FALSE, moved |-> kZeros2i,
          pointers |-> pointers]

(***************************************************************************)
(* InputSystem::CloseOpenJoysticks and OpenConnectedJoysticks              *)
(* (input.cpp:324-358): connected are the instance ids of the joysticks    *)
(* SDL has; the handle of an open joystick is modelled by 1.               *)
(***************************************************************************)
UpdateConnectedJoystickList(map, connected) ==
  [id \in DOMAIN map \cup connected |->
     LET joystick == IF id \in DOMAIN map THEN map[id] ELSE NewJoystick
     IN [joystick EXCEPT !.sdl_joystick_ =
           IF id \in connected THEN 1 ELSE NULL]]

(***************************************************************************)
(* The reset of a pointer at the start of a frame (input.cpp:106-108).     *)
(***************************************************************************)
ResetPointerKeepsDelta(pointer) == pointer

ResetPointer(pointer) == [pointer EXCEPT !.mousedelta = kZeros2i]

(***************************************************************************)
(* The events SDL_PollEvent hands to AdvanceFrame, by the case of the      *)
(* switch that handles them.                                               *)
(***************************************************************************)
KeyEvents == {[sym |-> SDLK_a, pressed |-> down] : down \in BOOLEAN}

FingerIds == 1 .. MaxPointers + 1

TouchEvent(finger, listed) ==
  [fingerId |-> finger, listed |-> listed, position |-> <<<<1, 2>>, <<1, 4>>>>,
   delta |-> <<<<1, 100>>, <<-1, 200>>>>]

TouchEvents ==
  {TouchEvent(finger, TRUE) : finger \in FingerIds}
    \cup {TouchEvent(1, FALSE)}

MouseButtonEvents ==
  {[button |-> 1, pressed |-> down, x |-> 10, y |-> 20] : down \in BOOLEAN}

MouseMotionEvents ==
  {[xrel |-> 1, yrel |-> -2, x |-> 11, y |-> 18],
   [xrel |-> 3, yrel |-> 0, x |-> 14, y |-> 18]}

WindowEvents ==
  {[event |-> "SDL_WINDOWEVENT_RESIZED", data1 |-> 800, data2 |-> 600],
   [event |-> "SDL_WINDOWEVENT_MOVED", data1 |-> 5, data2 |-> 5]}

JoystickIds == {0, 1}

JoyAxisEvents ==
  {[which |-> which, axis |-> 0, value |-> -16384] : which \in JoystickIds}

JoyButtonEvents ==
  {[which |-> which, button |-> 1, pressed |-> down] :
     which \in JoystickIds, down \in BOOLEAN}

JoyHatEvents ==
  {[which |-> which, hat |-> 0, value |-> value] :
     which \in JoystickIds, value \in {SDL_HAT_RIGHT + SDL_HAT_UP, 16}}

(***************************************************************************)
(* What an event reports, for the properties: the state of a button (the   *)
(* key is <<-1, k>> for the button k of button_map_ and <<j, b>> for the   *)
(* button b of the joystick j), a motion of a pointer, or neither.         *)
(***************************************************************************)
Report(key, down) ==
  [kind |-> "button", key |-> key, down |-> down, pointer |-> 0,
   delta |-> kZeros2i]

Motion(pointer, delta) ==
  [kind |-> "motion", key |-> <<-1, 0>>, down |-> FALSE, pointer |-> pointer,
   delta |-> delta]

NoReport ==
  [kind |-> "other", key |-> <<-1, 0>>, down |-> FALSE, pointer |-> 0,
   delta |-> kZeros2i]

(***************************************************************************)
(* The InputSystem after its construction (input.h).                       *)
(***************************************************************************)
InputNew ==
  /\ in_pc = "constructed"
  /\ in_failed = ""
  /\ frames_ = 0
  /\ polled = 0
  /\ button_map_ = [k \in {} |-> NewButton]
  /\ pointers_ = [i \in 1 .. MaxPointers |-> NewPointer]
  /\ joystick_map_ = [id \in {} |-> NewJoystick]
  /\ sdl_joysticks = {0}
  /\ exit_requested_ = FALSE
  /\ window_size_arg = window_size
  /\ h_events = <<>>
  /\ h_button_map = [k \in {} |-> NewButton]
  /\ h_joystick_map = [id \in {} |-> NewJoystick]

InputIdle ==
  /\ mobile = FALSE
  /\ InputNew

(***************************************************************************)
(* InputSystem::Initialize (input.cpp:37-46).                              *)
(***************************************************************************)
Initialize ==
  /\ in_pc = "constructed"
  /\ in_pc' = "ready"
  /\ joystick_map_' = UpdateConnectedJoystickList(joystick_map_, sdl_joysticks)
  /\ UNCHANGED <<in_failed, mobile, frames_, polled, button_map_, pointers_,
                 sdl_joysticks, exit_requested_, window_size_arg, inputHistory>>

(***************************************************************************)
(* InputSystem::AdvanceFrame up to its event loop (input.cpp:86-119): the  *)
(* reset of the per-frame state.                                           *)
(***************************************************************************)
AdvanceFrameBegin ==
  /\ in_pc = "ready"
  /\ frames_ < MaxFrames
  /\ in_pc' = "polling"
  /\ frames_' = frames_ + 1
  /\ polled' = 0
  /\ button_map_' =
       [k \in DOMAIN button_map_ |-> ButtonAdvanceFrame(button_map_[k])]
  /\ pointers_' = [i \in 1 .. Len(pointers_) |-> ResetPointer(pointers_[i])]
  /\ joystick_map_' =
       [id \in DOMAIN joystick_map_ |-> JoystickAdvanceFrame(joystick_map_[id])]
  /\ h_events' = <<>>
  /\ h_button_map' = button_map_
  /\ h_joystick_map' = joystick_map_
  /\ UNCHANGED <<in_failed, mobile, sdl_joysticks, exit_requested_,
                 window_size_arg>>

(***************************************************************************)
(* One turn of the event loop (input.cpp:120-189): SDL_PollEvent gave an   *)
(* event, which was handled (reports says what it reported), or an assert  *)
(* failed while it was handled.                                            *)
(***************************************************************************)
Polling ==
  /\ in_pc = "polling"
  /\ polled < MaxEvents

Handled(reports) ==
  /\ Polling
  /\ polled' = polled + 1
  /\ h_events' = h_events \o reports
  /\ UNCHANGED <<in_pc, in_failed, mobile, frames_, h_button_map,
                 h_joystick_map>>

InputAbort(assert) ==
  /\ Polling
  /\ in_pc' = "aborted"
  /\ in_failed' = assert
  /\ UNCHANGED <<mobile, frames_, polled, inputState, inputHistory>>

PollQuit ==
  /\ Handled(<<NoReport>>)
  /\ exit_requested_' = TRUE
  /\ UNCHANGED <<button_map_, pointers_, joystick_map_, sdl_joysticks,
                 window_size_arg>>

PollKey(e) ==
  /\ Handled(<<Report(<<-1, e.sym>>, e.pressed)>>)
  /\ button_map_' = UpdateButton(button_map_, e.sym, e.pressed)
  /\ UNCHANGED <<pointers_, joystick_map_, sdl_joysticks, exit_requested_,
                 window_size_arg>>

PollFingerDown(e) ==
  IF ~mobile
    THEN Handled(<<NoReport>>) /\ UNCHANGED inputState
    ELSE LET drag == UpdateDragPosition(pointers_, e, FALSE, window_size_arg)
         IN IF ~drag.found
              THEN InputAbort("FindPointer")
              ELSE /\ Handled((IF drag.listed
                                 THEN <<Motion(drag.i + 1, drag.moved)>>
                                 ELSE <<>>)
                              \o <<Report(<<-1, GetPointerButton(drag.i)>>,
                                          TRUE)>>)
                   /\ pointers_' = drag.pointers
                   /\ button_map_' =
                        UpdateButton(button_map_, GetPointerButton(drag.i),
                                     TRUE)
                   /\ UNCHANGED <<joystick_map_, sdl_joysticks,
                                  exit_requested_, window_size_arg>>

PollFingerUp(e) ==
  IF ~mobile
    THEN Handled(<<NoReport>>) /\ UNCHANGED inputState
    ELSE LET fp == FindPointer(pointers_, e.fingerId)
         IN IF ~fp.found
              THEN InputAbort("FindPointer")
              ELSE /\ Handled(<<Report(<<-1, GetPointerButton(fp.i)>>, FALSE)>>)
                   /\ pointers_' = RemovePointer(fp.pointers, fp.i)
                   /\ button_map_' =
                        UpdateButton(button_map_, GetPointerButton(fp.i), FALSE)
                   /\ UNCHANGED <<joystick_map_, sdl_joysticks,
                                  exit_requested_, window_size_arg>>

PollFingerMotion(e) ==
  IF ~mobile
    THEN Handled(<<NoReport>>) /\ UNCHANGED inputState
    ELSE LET drag == UpdateDragPosition(pointers_, e, FALSE, window_size_arg)
         IN IF ~drag.found
              THEN InputAbort("FindPointer")
              ELSE /\ Handled(IF drag.listed
                                THEN <<Motion(drag.i + 1, drag.moved)>>
                                ELSE <<NoReport>>)
                   /\ pointers_' = drag.pointers
                   /\ UNCHANGED <<button_map_, joystick_map_, sdl_joysticks,
                                  exit_requested_, window_size_arg>>

PollMouseButton(e) ==
  /\ Handled(<<Report(<<-1, GetPointerButton(e.button - 1)>>, e.pressed)>>)
  /\ button_map_' =
       UpdateButton(button_map_, GetPointerButton(e.button - 1), e.pressed)
  /\ pointers_' = [pointers_ EXCEPT ![1].mousepos = <<e.x, e.y>>,
                                    ![1].used = TRUE]
  /\ UNCHANGED <<joystick_map_, sdl_joysticks, exit_requested_,
                 window_size_arg>>

PollMouseMotion(e) ==
  /\ Handled(<<Motion(1, <<e.xrel, e.yrel>>)>>)
  /\ pointers_' =
       [pointers_ EXCEPT ![1].mousedelta = VAdd(@, <<e.xrel, e.yrel>>),
                         ![1].mousepos = <<e.x, e.y>>]
  /\ UNCHANGED <<button_map_, joystick_map_, sdl_joysticks, exit_requested_,
                 window_size_arg>>

PollWindowEvent(e) ==
  /\ Handled(<<NoReport>>)
  /\ window_size_arg' = IF e.event = "SDL_WINDOWEVENT_RESIZED"
                          THEN <<e.data1, e.data2>>
                          ELSE window_size_arg
  /\ UNCHANGED <<button_map_, pointers_, joystick_map_, sdl_joysticks,
                 exit_requested_>>

(***************************************************************************)
(* InputSystem::HandleJoystickEvent (input.cpp:192-213).  A joystick with  *)
(* the instance id joystick_id was plugged in or out before                *)
(* SDL_JOYDEVICEADDED or SDL_JOYDEVICEREMOVED is polled.                   *)
(***************************************************************************)
PollJoyDevice(joystick_id, added) ==
  /\ Handled(<<NoReport>>)
  /\ sdl_joysticks' = IF added THEN sdl_joysticks \cup {joystick_id}
                               ELSE sdl_joysticks \ {joystick_id}
  /\ joystick_map_' =
       UpdateConnectedJoystickList(joystick_map_, sdl_joysticks')
  /\ UNCHANGED <<button_map_, pointers_, exit_requested_, window_size_arg>>

PollJoyAxis(e) ==
  IF ~GetJoystickAssert(joystick_map_, e.which)
    THEN InputAbort("GetJoystick")
    ELSE /\ Handled(<<NoReport>>)
         /\ joystick_map_' =
              [joystick_map_ EXCEPT ![e.which] =
                 JoystickUpdateAxis(@, e.axis, <<e.value, kJoystickAxisRange>>)]
         /\ UNCHANGED <<button_map_, pointers_, sdl_joysticks, exit_requested_,
                        window_size_arg>>

PollJoyButton(e) ==
  IF ~GetJoystickAssert(joystick_map_, e.which)
    THEN InputAbort("GetJoystick")
    ELSE /\ Handled(<<Report(<<e.which, e.button>>, e.pressed)>>)
         /\ joystick_map_' =
              [joystick_map_ EXCEPT ![e.which] =
                 JoystickUpdateButton(@, e.button, e.pressed)]
         /\ UNCHANGED <<button_map_, pointers_, sdl_joysticks, exit_requested_,
                        window_size_arg>>

PollJoyHat(e) ==
  IF ~GetJoystickAssert(joystick_map_, e.which)
    THEN InputAbort("GetJoystick")
    ELSE /\ Handled(<<NoReport>>)
         /\ joystick_map_' =
              [joystick_map_ EXCEPT ![e.which] =
                 JoystickUpdateHat(@, e.hat, ConvertHatToVector(e.value))]
         /\ UNCHANGED <<button_map_, pointers_, sdl_joysticks, exit_requested_,
                        window_size_arg>>

(***************************************************************************)
(* An event of a type the switch has no case for (input.cpp:183-187): it   *)
(* is logged.                                                              *)
(***************************************************************************)
PollUnknown ==
  /\ Handled(<<NoReport>>)
  /\ UNCHANGED inputState

(***************************************************************************)
(* SDL_PollEvent gave no event: AdvanceFrame returns (input.cpp:120, 190). *)
(***************************************************************************)
AdvanceFrameReturn ==
  /\ in_pc = "polling"
  /\ in_pc' = "ready"
  /\ UNCHANGED <<in_failed, mobile, frames_, polled, inputState, inputHistory>>

(***************************************************************************)
(* The gamepad events of an ANDROID_GAMEPAD build (input.cpp:419-518):     *)
(* Java threads call ReceiveGamepadEvent, the thread that owns the         *)
(* InputSystem calls HandleGamepadEvents from AdvanceFrame                 *)
(* (input.cpp:112-117).  The thread 0 is the owner, the threads            *)
(* 1 .. MaxReceivers are the callers of ReceiveGamepadEvent;               *)
(* android_event_mutex is the thread that holds the mutex, or Unlocked.    *)
(***************************************************************************)
kMaxAndroidEventsPerFrame == 100

OwnerThread == 0

Unlocked == -1

Receivers == 1 .. MaxReceivers

Threads == {OwnerThread} \cup Receivers

(***************************************************************************)
(* enum GamepadInputButton and kGamepadHatThreshold (input.h), the latter  *)
(* as a fraction.                                                          *)
(***************************************************************************)
kInvalid == -1

kUp == 0

kDown == 1

kLeft == 2

kRight == 3

kButtonA == 4

kButtonB == 5

kButtonC == 6

kControlCount == 7

kGamepadHatThreshold == <<1, 2>>

(***************************************************************************)
(* Gamepad::GetGamepadCodeFromJavaKeyCode (input.cpp:497-518): the first   *)
(* kControlCount entries of kJavaToGamepadMap are looked at.               *)
(***************************************************************************)
kJavaToGamepadMap ==
  <<<<"AKEYCODE_DPAD_UP", kUp>>, <<"AKEYCODE_DPAD_DOWN", kDown>>,
    <<"AKEYCODE_DPAD_LEFT", kLeft>>, <<"AKEYCODE_DPAD_RIGHT", kRight>>,
    <<"AKEYCODE_DPAD_CENTER", kButtonA>>, <<"AKEYCODE_BUTTON_A", kButtonA>>,
    <<"AKEYCODE_BUTTON_B", kButtonB>>, <<"AKEYCODE_BUTTON_C", kButtonC>>>>

GetGamepadCodeFromJavaKeyCode(java_keycode) ==
  LET matching == {i \in 1 .. kControlCount :
                     kJavaToGamepadMap[i][1] = java_keycode}
  IN IF matching # {} THEN kJavaToGamepadMap[Least(matching)][2] ELSE kInvalid

(***************************************************************************)
(* class Gamepad (input.h): kControlCount buttons; Gamepad::AdvanceFrame   *)
(* (input.cpp:478-482); Gamepad::GetButton (484-488) followed by Update.   *)
(* InputSystem::GetGamepad (266-276) inserts the gamepad of a device that  *)
(* has none.                                                               *)
(***************************************************************************)
NewGamepad(gamepad_device_id) ==
  [controller_id_ |-> gamepad_device_id,
   button_list_ |-> [i \in 1 .. kControlCount |-> NewButton]]

GamepadAdvanceFrame(gamepad) ==
  [gamepad EXCEPT !.button_list_ =
     [i \in 1 .. Len(@) |-> ButtonAdvanceFrame(@[i])]]

GamepadGetButtonAssert(index) == index >= 0 /\ index < kControlCount

GamepadUpdateButton(gamepad, index, down) ==
  [gamepad EXCEPT !.button_list_[index + 1] = ButtonUpdate(@, down)]

GetGamepad(map, gamepad_device_id) ==
  [id \in DOMAIN map \cup {gamepad_device_id} |->
     IF id \in DOMAIN map THEN map[id] ELSE NewGamepad(gamepad_device_id)]

(***************************************************************************)
(* x < -kGamepadHatThreshold and x > kGamepadHatThreshold for an integer   *)
(* x.                                                                      *)
(***************************************************************************)
Below(x) == x * kGamepadHatThreshold[2] < -kGamepadHatThreshold[1]

Above(x) == x * kGamepadHatThreshold[2] > kGamepadHatThreshold[1]

(***************************************************************************)
(* The body of the loop of HandleGamepadEvents for one event               *)
(* (input.cpp:441-470): the gamepad map after it.                          *)
(***************************************************************************)
ApplyGamepadEvent(map, event) ==
  LET map_ == GetGamepad(map, event.device_id)
      gamepad == map_[event.device_id]
      button_index == GetGamepadCodeFromJavaKeyCode(event.control_code)
  IN IF event.event_code \in {"AKEY_EVENT_ACTION_DOWN", "AKEY_EVENT_ACTION_UP"}
       THEN IF button_index # kInvalid
              THEN [map_ EXCEPT ![event.device_id] =
                      GamepadUpdateButton(
                        gamepad, button_index,
                        event.event_code = "AKEY_EVENT_ACTION_DOWN")]
              ELSE map_
     ELSE IF event.event_code = "AMOTION_EVENT_ACTION_MOVE"
       THEN [map_ EXCEPT ![event.device_id] =
               GamepadUpdateButton(
                 GamepadUpdateButton(
                   GamepadUpdateButton(
                     GamepadUpdateButton(gamepad, kLeft, Below(event.x)),
                     kRight, Above(event.x)),
                   kUp, Below(event.y)),
                 kDown, Above(event.y))]
     ELSE map_

(***************************************************************************)
(* The events the Java side passes to ReceiveGamepadEvent.                 *)
(***************************************************************************)
AndroidInputEvent(device_id, event_code, control_code, x, y) ==
  [device_id |-> device_id, event_code |-> event_code,
   control_code |-> control_code, x |-> x, y |-> y]

GamepadEvents ==
  {AndroidInputEvent(1, "AKEY_EVENT_ACTION_DOWN", "AKEYCODE_BUTTON_A", 0, 0),
   AndroidInputEvent(1, "AKEY_EVENT_ACTION_UP", "AKEYCODE_BUTTON_A", 0, 0),
   AndroidInputEvent(1, "AMOTION_EVENT_ACTION_MOVE", "", -1, 1)}

NoEvent == AndroidInputEvent(0, "", "", 0, 0)

(***************************************************************************)
(* The gamepad part of a new InputSystem.  recv_pc is where each receiver  *)
(* is in ReceiveGamepadEvent, recv_event the event it was called with,     *)
(* owner_pc where the owner is in the gamepad part of AdvanceFrame, calls  *)
(* the number of calls of ReceiveGamepadEvent made and gamepad_frames the  *)
(* number of calls of AdvanceFrame.                                        *)
(***************************************************************************)
GamepadIdle ==
  /\ unhandled_java_input_events_ = <<>>
  /\ android_event_mutex = Unlocked
  /\ gamepad_map_ = [id \in {} |-> NewGamepad(id)]
  /\ owner_pc = "outside"
  /\ recv_pc = [t \in Receivers |-> "outside"]
  /\ recv_event = [t \in Receivers |-> NoEvent]
  /\ receive_calls = 0
  /\ gamepad_frames = 0

(***************************************************************************)
(* ReceiveGamepadEvent (input.cpp:422-431), a step for each access: the    *)
(* call, the test of the queue's size (425), the lock (426), the push      *)
(* (427-428) and the unlock (429).  The size is read without the mutex:    *)
(* while another thread is inside its critical section the read races      *)
(* with that thread's writes and the test may go either way.               *)
(***************************************************************************)
ReceiveGamepadEvent(t, event) ==
  /\ recv_pc[t] = "outside"
  /\ receive_calls < MaxCalls
  /\ receive_calls' = receive_calls + 1
  /\ recv_pc' = [recv_pc EXCEPT ![t] = "size"]
  /\ recv_event' = [recv_event EXCEPT ![t] = event]
  /\ UNCHANGED <<unhandled_java_input_events_, android_event_mutex,
                 gamepad_map_, owner_pc, gamepad_frames>>

ReceiveSize(t) ==
  /\ recv_pc[t] = "size"
  /\ \E below \in BOOLEAN :
       /\ android_event_mutex = Unlocked =>
            below = (Len(unhandled_java_input_events_)
                       < kMaxAndroidEventsPerFrame)
       /\ recv_pc' = [recv_pc EXCEPT ![t] = IF below THEN "lock" ELSE "outside"]
  /\ UNCHANGED <<unhandled_java_input_events_, android_event_mutex,
                 gamepad_map_, owner_pc, recv_event, receive_calls, gamepad_frames>>

ReceiveLock(t) ==
  /\ recv_pc[t] = "lock"
  /\ android_event_mutex = Unlocked
  /\ android_event_mutex' = t
  /\ recv_pc' = [recv_pc EXCEPT ![t] = "push"]
  /\ UNCHANGED <<unhandled_java_input_events_, gamepad_map_, owner_pc,
                 recv_event, receive_calls, gamepad_frames>>

ReceivePush(t) ==
  /\ recv_pc[t] = "push"
  /\ unhandled_java_input_events_' =
       Append(unhandled_java_input_events_, recv_event[t])
  /\ recv_pc' = [recv_pc EXCEPT ![t] = "unlock"]
  /\ UNCHANGED <<android_event_mutex, gamepad_map_, owner_pc, recv_event,
                 receive_calls, gamepad_frames>>

ReceiveUnlock(t) ==
  /\ recv_pc[t] = "unlock"
  /\ android_event_mutex' = Unlocked
  /\ recv_pc' = [recv_pc EXCEPT ![t] = "outside"]
  /\ UNCHANGED <<unhandled_java_input_events_, gamepad_map_, owner_pc,
                 recv_event, receive_calls, gamepad_frames>>

(***************************************************************************)
(* The gamepad part of AdvanceFrame (input.cpp:112-117) and                *)
(* HandleGamepadEvents (434-475): the reset of the gamepads, the lock      *)
(* (436), a turn of the loop (437-470) or its end, the swap with an empty  *)
(* queue (473) and the unlock (474).                                       *)
(***************************************************************************)
GamepadAdvanceFrameBegin ==
  /\ owner_pc = "outside"
  /\ gamepad_frames < MaxFrames
  /\ gamepad_frames' = gamepad_frames + 1
  /\ gamepad_map_' =
       [id \in DOMAIN gamepad_map_ |-> GamepadAdvanceFrame(gamepad_map_[id])]
  /\ owner_pc' = "lock"
  /\ UNCHANGED <<unhandled_java_input_events_, android_event_mutex, recv_pc,
                 recv_event, receive_calls>>

HandleLock ==
  /\ owner_pc = "lock"
  /\ android_event_mutex = Unlocked
  /\ android_event_mutex' = OwnerThread
  /\ owner_pc' = "loop"
  /\ UNCHANGED <<unhandled_java_input_events_, gamepad_map_, recv_pc,
                 recv_event, receive_calls, gamepad_frames>>

HandleLoop ==
  /\ owner_pc = "loop"
  /\ IF Len(unhandled_java_input_events_) > 0
       THEN LET event == Head(unhandled_java_input_events_)
            IN /\ unhandled_java_input_events_' =
                    Tail(unhandled_java_input_events_)
               /\ gamepad_map_' = ApplyGamepadEvent(gamepad_map_, event)
               /\ UNCHANGED owner_pc
       ELSE /\ owner_pc' = "swap"
            /\ UNCHANGED <<unhandled_java_input_events_, gamepad_map_>>
  /\ UNCHANGED <<android_event_mutex, recv_pc, recv_event, receive_calls,
                 gamepad_frames>>

HandleSwap ==
  /\ owner_pc = "swap"
  /\ unhandled_java_input_events_' = <<>>
  /\ owner_pc' = "unlock"
  /\ UNCHANGED <<android_event_mutex, gamepad_map_, recv_pc, recv_event,
                 receive_calls, gamepad_frames>>

HandleUnlock ==
  /\ owner_pc = "unlock"
  /\ android_event_mutex' = Unlocked
  /\ owner_pc' = "outside"
  /\ UNCHANGED <<unhandled_java_input_events_, gamepad_map_, recv_pc,
                 recv_event, receive_calls, gamepad_frames>>

ExtendIdle ==
  /\ ext_group = Group(TRUE, ALIGN_TOPLEFT, 0, 0)
  /\ ext_children = <<>>

AlignIdle ==
  /\ al_layout = LAYOUT_HORIZONTAL_TOP
  /\ al_dim = 1
  /\ al_space = kZeros2i
  /\ al_class = <<>>
  /\ al_offset = <<>>

Init ==
  /\ GuiInit
  /\ ExtendIdle
  /\ AlignIdle
  /\ InputIdle
  /\ GamepadIdle

Next ==
  \/ RunBegin /\ UNCHANGED others
  \/ \E input \in ImageInputs :
       Image(input[1], input[2]) /\ UNCHANGED others
  \/ \E input \in GroupInputs :
       StartGroup(input[1], input[2]) /\ UNCHANGED others
  \/ EndGroup /\ UNCHANGED others
  \/ \E canvas_size \in CanvasSizes, virtual_resolution \in VirtualResolutions,
        horizontal \in HorizontalLayouts, vertical \in VerticalLayouts :
       /\ PositionUI(canvas_size, virtual_resolution, horizontal, vertical)
       /\ UNCHANGED others
  \/ StartRenderPass /\ UNCHANGED others
  \/ LeaveOut /\ UNCHANGED others
  \/ RunReturn /\ UNCHANGED others

Spec == Init /\ [][Next]_vars

(***************************************************************************)
(* Group::Extend taken alone: a fresh group of either orientation and any  *)
(* spacing of ExtendSpacings is extended with up to MaxChildren sizes of   *)
(* ExtendSizes.                                                            *)
(***************************************************************************)
ExtendSpacings == {0, 1, 20}

ExtendSizes == (0 .. 2) \X (0 .. 2)

ExtendInit ==
  /\ GuiInit
  /\ AlignIdle
  /\ InputIdle
  /\ GamepadIdle
  /\ ext_group \in {Group(vertical, ALIGN_TOPLEFT, spacing, 0) :
                      vertical \in BOOLEAN, spacing \in ExtendSpacings}
  /\ ext_children = <<>>

ExtendChild(size) ==
  /\ Len(ext_children) < MaxChildren
  /\ ext_group' = Extend(ext_group, size)
  /\ ext_children' = Append(ext_children, size)
  /\ UNCHANGED exceptExtend

ExtendNext == \E size \in ExtendSizes : ExtendChild(size)

SpecExtend == ExtendInit /\ [][ExtendNext]_vars

(***************************************************************************)
(* The classification of a layout selector and AlignDimension taken alone, *)
(* as the public StartGroup and PositionUI use them (imgui.cpp:298-310):   *)
(* a selector is classified with IsVertical and GetAlignment, and the      *)
(* alignment obtained is given to AlignDimension with a dimension and a    *)
(* space.  The spaces are those of AlignSpaces in either dimension,        *)
(* negative ones (the content is larger than the room for it) included.    *)
(***************************************************************************)
Layouts ==
  {LAYOUT_HORIZONTAL_TOP, LAYOUT_HORIZONTAL_CENTER, LAYOUT_HORIZONTAL_BOTTOM,
   LAYOUT_VERTICAL_LEFT, LAYOUT_VERTICAL_CENTER, LAYOUT_VERTICAL_RIGHT}

AlignSpaces == {-7, -4, -1, 0, 1, 6, 9}

AlignInit ==
  /\ GuiInit
  /\ ExtendIdle
  /\ InputIdle
  /\ GamepadIdle
  /\ al_layout \in Layouts
  /\ al_dim \in {1, 2}
  /\ al_space \in AlignSpaces \X AlignSpaces
  /\ al_class = <<>>
  /\ al_offset = <<>>

Classify ==
  /\ al_class = <<>>
  /\ al_class' = <<IsVertical(al_layout), GetAlignment(al_layout)>>
  /\ UNCHANGED <<exceptClassify, al_layout, al_dim, al_space, al_offset>>

Align ==
  /\ al_class # <<>>
  /\ al_offset = <<>>
  /\ al_offset' = AlignDimension(al_class[2], al_dim, al_space)
  /\ UNCHANGED <<exceptClassify, al_layout, al_dim, al_space, al_class>>

AlignNext == Classify \/ Align

SpecAlign == AlignInit /\ [][AlignNext]_vars

(***************************************************************************)
(* The input system taken alone: AdvanceFrame is called up to MaxFrames    *)
(* times and polls up to MaxEvents events each time.                       *)
(***************************************************************************)
InputInit ==
  /\ GuiInit
  /\ ExtendIdle
  /\ AlignIdle
  /\ GamepadIdle
  /\ mobile \in BOOLEAN
  /\ InputNew

InputNext ==
  \/ Initialize /\ UNCHANGED exceptInput
  \/ AdvanceFrameBegin /\ UNCHANGED exceptInput
  \/ PollQuit /\ UNCHANGED exceptInput
  \/ \E e \in KeyEvents : PollKey(e) /\ UNCHANGED exceptInput
  \/ \E e \in TouchEvents : PollFingerDown(e) /\ UNCHANGED exceptInput
  \/ \E e \in TouchEvents : PollFingerUp(e) /\ UNCHANGED exceptInput
  \/ \E e \in TouchEvents : PollFingerMotion(e) /\ UNCHANGED exceptInput
  \/ \E e \in MouseButtonEvents : PollMouseButton(e) /\ UNCHANGED exceptInput
  \/ \E e \in MouseMotionEvents : PollMouseMotion(e) /\ UNCHANGED exceptInput
  \/ \E e \in WindowEvents : PollWindowEvent(e) /\ UNCHANGED exceptInput
  \/ \E joystick_id \in JoystickIds, added \in BOOLEAN :
       PollJoyDevice(joystick_id, added) /\ UNCHANGED exceptInput
  \/ \E e \in JoyAxisEvents : PollJoyAxis(e) /\ UNCHANGED exceptInput
  \/ \E e \in JoyButtonEvents : PollJoyButton(e) /\ UNCHANGED exceptInput
  \/ \E e \in JoyHatEvents : PollJoyHat(e) /\ UNCHANGED exceptInput
  \/ PollUnknown /\ UNCHANGED exceptInput
  \/ AdvanceFrameReturn /\ UNCHANGED exceptInput

SpecInput == InputInit /\ [][InputNext]_vars

(***************************************************************************)
(* The gamepad events taken alone: ReceiveGamepadEvent is called up to     *)
(* MaxCalls times, by MaxReceivers threads, and AdvanceFrame up to         *)
(* MaxFrames times.                                                        *)
(***************************************************************************)
GamepadInit ==
  /\ GuiInit
  /\ ExtendIdle
  /\ AlignIdle
  /\ InputIdle
  /\ GamepadIdle

GamepadNext ==
  \/ \E t \in Receivers, event \in GamepadEvents :
       ReceiveGamepadEvent(t, event) /\ UNCHANGED exceptGamepad
  \/ \E t \in Receivers : ReceiveSize(t) /\ UNCHANGED exceptGamepad
  \/ \E t \in Receivers : ReceiveLock(t) /\ UNCHANGED exceptGamepad
  \/ \E t \in Receivers : ReceivePush(t) /\ UNCHANGED exceptGamepad
  \/ \E t \in Receivers : ReceiveUnlock(t) /\ UNCHANGED exceptGamepad
  \/ GamepadAdvanceFrameBegin /\ UNCHANGED exceptGamepad
  \/ HandleLock /\ UNCHANGED exceptGamepad
  \/ HandleLoop /\ UNCHANGED exceptGamepad
  \/ HandleSwap /\ UNCHANGED exceptGamepad
  \/ HandleUnlock /\ UNCHANGED exceptGamepad

SpecGamepad == GamepadInit /\ [][GamepadNext]_vars

(***************************************************************************)
(* The same threads, from a state in which ReceiveGamepadEvent has been    *)
(* called kMaxAndroidEventsPerFrame - 1 times since the last AdvanceFrame  *)
(* and has returned each time: the queue is one event short of the limit   *)
(* and no thread is inside either function.                                *)
(***************************************************************************)
Backlog ==
  [i \in 1 .. kMaxAndroidEventsPerFrame - 1 |->
     AndroidInputEvent(1, "AMOTION_EVENT_ACTION_MOVE", "", -1, 1)]

GamepadFullInit ==
  /\ GuiInit
  /\ ExtendIdle
  /\ AlignIdle
  /\ InputIdle
  /\ unhandled_java_input_events_ = Backlog
  /\ android_event_mutex = Unlocked
  /\ gamepad_map_ = [id \in {} |-> NewGamepad(id)]
  /\ owner_pc = "outside"
  /\ recv_pc = [t \in Receivers |-> "outside"]
  /\ recv_event = [t \in Receivers |-> NoEvent]
  /\ receive_calls = 0
  /\ gamepad_frames = 0

SpecGamepadFull == GamepadFullInit /\ [][GamepadNext]_vars

(***************************************************************************)
(* What the properties speak of.                                           *)
(***************************************************************************)
ElementCalls(calls) == SelectSeq(calls, IsElementCall)

IdentityOf(c) == IF c.fn = "StartGroup" THEN group_id ELSE c.id

Replaying == pc = "render" /\ IsPrefix(renderCalls, layoutCalls)

ReplayDone == pc = "render" /\ renderCalls = layoutCalls

(***************************************************************************)
(* C1: when the render pass makes the calls of the layout pass, its k-th   *)
(* Image or StartGroup call is given the k-th cache entry, which carries   *)
(* the identity of that call, no call goes without an entry, and the read  *)
(* cursor is at the end of the cache when all the calls are made.          *)
(***************************************************************************)
C1_ReplayMatchesInOrder ==
  Replaying =>
    /\ Len(placed) = Len(ElementCalls(renderCalls))
    /\ \A k \in 1 .. Len(placed) :
         /\ placed[k].elem = k
         /\ elements_[k].id = IdentityOf(ElementCalls(renderCalls)[k])
    /\ element_it_ = Len(placed) + 1
    /\ ReplayDone => element_it_ = Len(elements_) + 1

C1_Witness ==
  /\ ReplayDone
  /\ Len(placed) = 3
  /\ elements_[2].id = elements_[3].id
  /\ elements_[1].id # elements_[2].id

(***************************************************************************)
(* C2: after any part of the layout pass the cache has one entry for each  *)
(* Image and StartGroup call made so far, in the order of the calls, with  *)
(* the identity of the call.                                               *)
(***************************************************************************)
C2_OneEntryPerCall ==
  pc = "layout" =>
    /\ Len(elements_) = Len(ElementCalls(layoutCalls))
    /\ \A i \in 1 .. Len(elements_) :
         elements_[i].id = IdentityOf(ElementCalls(layoutCalls)[i])

C2_Witness ==
  /\ pc = "layout"
  /\ Len(elements_) = 3
  /\ Len(layoutCalls) = 5
  /\ layoutCalls[1].fn = "PositionUI"
  /\ layoutCalls[2].fn = "StartGroup"
  /\ layoutCalls[3].fn = "Image"
  /\ layoutCalls[4].fn = "EndGroup"
  /\ layoutCalls[5].fn = "Image"
  /\ layoutCalls[3].id # layoutCalls[5].id

(***************************************************************************)
(* C3: in a render pass that makes the calls of the layout pass, the i-th  *)
(* child of a group (i from 0) is put, along the stacking axis, at the     *)
(* group's origin plus the sizes of the children before it plus i times    *)
(* the spacing and, along the other axis, at the origin plus 0, half the   *)
(* slack or the slack (for the leading, centred and trailing alignment),   *)
(* the slack being the group's cached size less the child's size.  The     *)
(* three images of the scenario are at (0,0), (0,70) and (0,130) from the  *)
(* origin of their group.                                                  *)
(***************************************************************************)
AlignmentOffset(align, slack) ==
  IF align = ALIGN_TOPLEFT THEN 0
  ELSE IF align = ALIGN_CENTER THEN TruncDiv(slack, 2)
  ELSE slack

CachedSize(g) == IF g.h_elem = 0 THEN g.size_ ELSE elements_[g.h_elem].size

ExpectedPosition(g, size) ==
  LET along == g.h_sum + g.h_n * g.spacing_
      across(d) == AlignmentOffset(g.align_, CachedSize(g)[d] - size[d])
  IN IF g.vertical_
       THEN <<g.h_origin[1] + across(1), g.h_origin[2] + along>>
       ELSE <<g.h_origin[1] + along, g.h_origin[2] + across(2)>>

ChildPlaced ==
  /\ pc = "render"
  /\ pc' = "render"
  /\ IsPrefix(renderCalls', layoutCalls)
  /\ Len(placed') = Len(placed) + 1

ScenarioPositions ==
  (Replaying /\ IsPrefix(Scenario, renderCalls)) =>
    /\ Len(placed) >= 4
    /\ placed[2].size = <<100, 50>>
    /\ placed[3].size = <<80, 40>>
    /\ placed[4].size = <<60, 30>>
    /\ placed[2].pos = VAdd(placed[1].pos, <<0, 0>>)
    /\ placed[3].pos = VAdd(placed[1].pos, <<0, 70>>)
    /\ placed[4].pos = VAdd(placed[1].pos, <<0, 130>>)

C3_ChildPositions ==
  /\ [][ChildPlaced =>
          LET child == placed'[Len(placed')]
          IN child.pos = ExpectedPosition(group, child.size)]_vars
  /\ []ScenarioPositions

C3_Witness ==
  /\ ReplayDone
  /\ renderCalls = Scenario
  /\ placed[4].pos = <<350, 570>>

(***************************************************************************)
(* C4: a fresh group extended in turn with three children has, along its   *)
(* stacking axis, the sum of their sizes plus twice the spacing and,       *)
(* across, the largest of their sizes.                                     *)
(***************************************************************************)
Along(g, size) == IF g.vertical_ THEN size[2] ELSE size[1]

Across(g, size) == IF g.vertical_ THEN size[1] ELSE size[2]

C4_ThreeChildren ==
  Len(ext_children) = 3 =>
    /\ Along(ext_group, ext_group.size_) =
         Along(ext_group, ext_children[1]) + Along(ext_group, ext_children[2])
           + Along(ext_group, ext_children[3]) + 2 * ext_group.spacing_
    /\ Across(ext_group, ext_group.size_) =
         Max(Across(ext_group, ext_children[1]),
             Max(Across(ext_group, ext_children[2]),
                 Across(ext_group, ext_children[3])))

(***************************************************************************)
(* C5: an Image call of the render pass whose identity no cache entry at   *)
(* or after the read cursor has draws nothing and leaves the engine (the   *)
(* read cursor, the current group, the group stack, the cache) as it was,  *)
(* so that what follows goes as if the call had not been made.             *)
(***************************************************************************)
LastCall(calls) == calls[Len(calls)]

RenderCall(fn) ==
  /\ pc = "render"
  /\ pc' = "render"
  /\ Len(renderCalls') = Len(renderCalls) + 1
  /\ LastCall(renderCalls').fn = fn

UnmatchedImage ==
  /\ RenderCall("Image")
  /\ \A j \in element_it_ .. Len(elements_) :
       elements_[j].id # LastCall(renderCalls').id

C5_UnmatchedImageSkipped ==
  [][UnmatchedImage => (engine' = engine /\ placed' = placed)]_vars

C5_Witness ==
  /\ pc = "render"
  /\ Len(group_stack_) = 1
  /\ Len(renderCalls) = 4
  /\ renderCalls[1].fn = "StartGroup"
  /\ renderCalls[2].fn = "Image"
  /\ renderCalls[3].fn = "Image"
  /\ renderCalls[4].fn = "Image"
  /\ renderCalls[2].id = "a"
  /\ renderCalls[3].id = "b"
  /\ renderCalls[4].id = "a"
  /\ \A j \in 1 .. Len(elements_) : elements_[j].id # "b"
  /\ Len(placed) = 3
  /\ placed[3].elem = 3

(***************************************************************************)
(* C6: a group the render pass declares and the layout pass did not is     *)
(* skipped: after its EndGroup the cursor position of the parent group and *)
(* the read cursor are what they were before its StartGroup.  The group    *)
(* taken here is one for which NextElement found no placeholder and which  *)
(* has nothing declared in it.                                             *)
(***************************************************************************)
AddedGroupEnds ==
  /\ RenderCall("EndGroup")
  /\ group.h_ins
  /\ ~group.h_matched
  /\ LastCall(renderCalls).fn = "StartGroup"

C6_AddedGroupSkipped ==
  [][AddedGroupEnds =>
       /\ group'.position_ = group_stack_[Len(group_stack_)].position_
       /\ element_it_' = group.h_it]_vars

(***************************************************************************)
(* C7: PositionUI, the first call of the render pass, moves the cursor of  *)
(* the root group by the alignment offsets of the canvas size less the     *)
(* size the root group accumulated over the top-level elements of the      *)
(* layout pass.                                                            *)
(***************************************************************************)
C7_PositionUIUsesWholeUI ==
  (pc = "render" /\ elements_ # <<>> /\ Len(renderCalls) = 1
     /\ renderCalls[1].fn = "PositionUI") =>
    LET slack == VSub(canvas_size_, ui_size)
    IN group.position_ =
         <<AlignmentOffset(GetAlignment(renderCalls[1].h), slack[1]),
           AlignmentOffset(GetAlignment(renderCalls[1].v), slack[2])>>

(***************************************************************************)
(* C8: unbalanced StartGroup and EndGroup calls end in a failed assert in  *)
(* either pass: an EndGroup with no group open fails, and a pass does not  *)
(* come to its end with a group open.  The passes taken here are those of  *)
(* a Run whose layout pass declared an element.                            *)
(***************************************************************************)
EndGroupWithNoneOpen ==
  /\ pc \in {"layout", "render"}
  /\ group_stack_ = <<>>
  /\ \/ Len(layoutCalls') = Len(layoutCalls) + 1
        /\ LastCall(layoutCalls').fn = "EndGroup"
     \/ Len(renderCalls') = Len(renderCalls) + 1
        /\ LastCall(renderCalls').fn = "EndGroup"

PassEndsWithGroupOpen ==
  /\ group_stack_ # <<>>
  /\ elements_ # <<>>
  /\ \/ pc = "layout" /\ pc' = "render"
     \/ pc = "render" /\ pc' = "idle"

C8_UnbalancedIsFatal ==
  [][~EndGroupWithNoneOpen /\ ~PassEndsWithGroupOpen]_vars

(***************************************************************************)
(* C9: there is never more than one InternalState, and a Run called while  *)
(* a Run is active fails in the constructor and leaves the singleton       *)
(* pointer as it was, set to the InternalState of the outer Run.           *)
(***************************************************************************)
NestedRun ==
  /\ pc \in {"layout", "render"}
  /\ runs' = runs + 1

C9_OneInstance ==
  /\ [](instances <= 1)
  /\ [][NestedRun =>
          /\ pc' = "aborted"
          /\ failed' = "InternalState"
          /\ state # NULL
          /\ state' = state
          /\ instances' = instances]_vars

C9_Witness ==
  /\ pc = "aborted"
  /\ failed = "InternalState"
  /\ ~layout_pass_
  /\ state = 1
  /\ instances = 1

(***************************************************************************)
(* C10: the singleton pointer is set exactly while a Run is active, and    *)
(* outside a Run every call of Image, StartGroup, EndGroup or PositionUI   *)
(* fails in Gui() and touches nothing of the engine.                       *)
(***************************************************************************)
CallOutsideRun ==
  /\ pc = "idle"
  /\ runs' = runs

C10_SingletonOnlyInRun ==
  /\ [](pc = "idle" => state = NULL)
  /\ [](pc \in {"layout", "render"} => state # NULL)
  /\ [][CallOutsideRun =>
          /\ pc' = "aborted"
          /\ failed' = "Gui"
          /\ state' = NULL
          /\ engine' = engine]_vars

C10_Witness ==
  /\ pc = "aborted"
  /\ failed = "Gui"
  /\ runs = 1
  /\ state = NULL

(***************************************************************************)
(* C13: the offset AlignDimension gives on the dimension it is asked for   *)
(* is 0 for the leading alignment, the space for the trailing one and, for *)
(* the centred one, half the space rounded toward zero (the integer q with *)
(* 2q = space, or 2q = space - 1 for an odd positive space, or             *)
(* 2q = space + 1 for an odd negative one); on the other dimension it is   *)
(* 0.                                                                      *)
(***************************************************************************)
IsHalfTowardZero(q, d) ==
  \/ 2 * q = d
  \/ d > 0 /\ 2 * q = d - 1
  \/ d < 0 /\ 2 * q = d + 1

C13_AlignmentOffset ==
  al_offset # <<>> =>
    LET d == al_space[al_dim]
        offset == al_offset[al_dim]
    IN /\ al_offset[3 - al_dim] = 0
       /\ al_class[2] = ALIGN_TOPLEFT => offset = 0
       /\ al_class[2] = ALIGN_CENTER => IsHalfTowardZero(offset, d)
       /\ al_class[2] = ALIGN_BOTTOMRIGHT => offset = d

C13_Witness ==
  /\ al_offset # <<>>
  /\ al_class[2] = ALIGN_CENTER
  /\ al_dim = 2
  /\ al_space = <<6, -7>>
  /\ al_offset = <<0, -3>>

(***************************************************************************)
(* C14: each of the six layout selectors is classified into an orientation *)
(* and one of the three alignments, and the alignment plus 3 for a         *)
(* vertical selector (plus 0 for a horizontal one) is the selector again.  *)
(***************************************************************************)
C14_ClassifyRoundTrip ==
  al_class # <<>> =>
    /\ al_class[2] \in {ALIGN_TOPLEFT, ALIGN_CENTER, ALIGN_BOTTOMRIGHT}
    /\ al_class[2] + (IF al_class[1] THEN 3 ELSE 0) = al_layout

C14_Witness ==
  /\ al_layout = LAYOUT_VERTICAL_RIGHT
  /\ al_class = <<TRUE, ALIGN_BOTTOMRIGHT>>

(***************************************************************************)
(* C11: once the pass flag is false, no step of the render pass (Image,    *)
(* StartGroup, EndGroup, PositionUI, with an entry found for the call or   *)
(* not) changes the cache: its length and the identity and size of each    *)
(* of its entries stay what the layout pass left.                          *)
(***************************************************************************)
RenderStep ==
  /\ ~layout_pass_
  /\ pc = "render"
  /\ pc' = "render"

C11_CacheFixedInRender == [][RenderStep => elements_' = elements_]_vars

C11_Witness ==
  /\ pc = "render"
  /\ inserted = 1
  /\ Len(renderCalls) = 5
  /\ renderCalls[1].fn = "PositionUI"
  /\ renderCalls[2].fn = "StartGroup"
  /\ renderCalls[3].fn = "Image"
  /\ renderCalls[4].fn = "Image"
  /\ renderCalls[5].fn = "EndGroup"
  /\ Len(placed) = 2
  /\ Len(elements_) = 2
  /\ elements_[1].size = elements_[2].size
  /\ elements_[1].size # kZeros2i

(***************************************************************************)
(* C12: after PositionUI(canvas_size, virtual_resolution, ...) as the      *)
(* first call of the layout pass, the pixel scale is the smaller of        *)
(* canvas_size.x / virtual_resolution and canvas_size.y /                  *)
(* virtual_resolution, for the canvas size that was passed.                *)
(***************************************************************************)
C12_PixelScaleOfCanvas ==
  (pc = "layout" /\ Len(layoutCalls) = 1
     /\ layoutCalls[1].fn = "PositionUI") =>
    pixel_scale_[1] * layoutCalls[1].vr =
      Min(layoutCalls[1].canvas[1], layoutCalls[1].canvas[2]) * pixel_scale_[2]

(***************************************************************************)
(* C15: no event AdvanceFrame polls stops the program: whatever the event  *)
(* (of an unknown type, from a joystick that is not in joystick_map_, with *)
(* an unknown hat value, a touch with every pointer in use), the loop goes *)
(* on to the next event.                                                   *)
(***************************************************************************)
C15_NoEventIsFatal == in_pc # "aborted" /\ in_failed = ""

(***************************************************************************)
(* C16: a thread that is at a read or a write of the queue of gamepad      *)
(* events holds android_event_mutex, so that no other thread is at a       *)
(* write of the queue at that time.                                        *)
(***************************************************************************)
AtQueueWrite(t) ==
  IF t = OwnerThread
    THEN \/ owner_pc = "swap"
         \/ owner_pc = "loop" /\ Len(unhandled_java_input_events_) > 0
    ELSE recv_pc[t] = "push"

AtQueueAccess(t) ==
  IF t = OwnerThread
    THEN owner_pc \in {"loop", "swap"}
    ELSE recv_pc[t] \in {"size", "push"}

C16_QueueAccessUnderMutex ==
  \A t \in Threads :
    AtQueueAccess(t) =>
      /\ android_event_mutex = t
      /\ \A u \in Threads \ {t} : ~AtQueueWrite(u)

(***************************************************************************)
(* C17: in the render pass the read cursor never moves backward: a call    *)
(* that is given an entry is given one at or after the cursor and leaves   *)
(* the cursor one past it, a call that is given none leaves the cursor     *)
(* where it was, and the entries handed out in a pass are in strictly      *)
(* increasing order, so that an entry a match went past is not handed out  *)
(* later.                                                                  *)
(***************************************************************************)
CursorMoves ==
  /\ element_it_' >= element_it_
  /\ Len(placed') = Len(placed) + 1 =>
       LET e == placed'[Len(placed')].elem
       IN /\ e >= element_it_
          /\ element_it_' = e + 1
  /\ placed' = placed => element_it_' = element_it_

HandedOutInOrder ==
  pc = "render" =>
    \A k \in 1 .. Len(placed) :
      \A l \in 1 .. Len(placed) : k < l => placed[k].elem < placed[l].elem

C17_CursorOnlyForward ==
  /\ [][RenderStep => CursorMoves]_vars
  /\ []HandedOutInOrder

C17_Witness ==
  /\ pc = "render"
  /\ removed = 1
  /\ Len(elements_) = 3
  /\ elements_[1].id = elements_[3].id
  /\ elements_[1].id # elements_[2].id
  /\ Len(placed) = 2
  /\ placed[1].elem = 2
  /\ placed[2].elem = 3
  /\ element_it_ = 4

(***************************************************************************)
(* C18: an EndGroup of the layout pass writes the size the closing group   *)
(* has accumulated to the placeholder the group's StartGroup appended and  *)
(* to no other entry, and extends the parent group with that size.  So     *)
(* whenever the layout pass has no group open, the size of each group's    *)
(* placeholder is that of an empty group of the group's orientation and    *)
(* spacing extended, in order, with the sizes of the entries of the        *)
(* group's direct children.                                                *)
(***************************************************************************)
ElementIndex(calls, j) == Len(ElementCalls(SubSeq(calls, 1, j)))

RECURSIVE DirectChildren(_, _, _)
DirectChildren(calls, k, end) ==
  IF k >= end THEN <<>>
  ELSE IF calls[k].fn = "StartGroup"
    THEN <<k>> \o DirectChildren(calls, MatchEnd(calls, k) + 1, end)
  ELSE IF calls[k].fn = "Image"
    THEN <<k>> \o DirectChildren(calls, k + 1, end)
  ELSE DirectChildren(calls, k + 1, end)

RECURSIVE ExtendWith(_, _, _)
ExtendWith(g, calls, children) ==
  IF children = <<>> THEN g
  ELSE ExtendWith(
         Extend(g, elements_[ElementIndex(calls, Head(children))].size),
         calls, Tail(children))

PlaceholderSizes ==
  (pc = "layout" /\ group_stack_ = <<>>) =>
    \A j \in 1 .. Len(layoutCalls) :
      layoutCalls[j].fn = "StartGroup" =>
        elements_[ElementIndex(layoutCalls, j)].size =
          ExtendWith(Group(IsVertical(layoutCalls[j].layout),
                           GetAlignment(layoutCalls[j].layout),
                           layoutCalls[j].spacing, 0),
                     layoutCalls,
                     DirectChildren(layoutCalls, j + 1,
                                    MatchEnd(layoutCalls, j))).size_

LayoutEndGroup ==
  /\ pc = "layout"
  /\ pc' = "layout"
  /\ Len(layoutCalls') = Len(layoutCalls) + 1
  /\ LastCall(layoutCalls').fn = "EndGroup"

Opens(calls, j, end) ==
  calls[j].fn = "StartGroup" /\ MatchEnd(calls, j) = end

OpenedBy(calls, end) ==
  CHOOSE j \in 1 .. end :
    /\ Opens(calls, j, end)
    /\ \A i \in j + 1 .. end : ~Opens(calls, i, end)

C18_EndGroupBackFills ==
  /\ [][LayoutEndGroup =>
          LET placeholder ==
                ElementIndex(layoutCalls',
                             OpenedBy(layoutCalls', Len(layoutCalls')))
              parent == group_stack_[Len(group_stack_)]
          IN /\ elements_' =
                  [elements_ EXCEPT ![placeholder].size = group.size_]
             /\ group'.size_ = Extend(parent, group.size_).size_]_vars
  /\ []PlaceholderSizes

C18_Witness ==
  /\ pc = "layout"
  /\ group_stack_ = <<>>
  /\ Len(layoutCalls) = 5
  /\ layoutCalls[1].fn = "StartGroup"
  /\ layoutCalls[2].fn = "StartGroup"
  /\ layoutCalls[3].fn = "Image"
  /\ layoutCalls[4].fn = "EndGroup"
  /\ layoutCalls[5].fn = "EndGroup"
  /\ elements_[1].size = elements_[3].size
  /\ elements_[2].size = elements_[3].size
  /\ elements_[3].size # kZeros2i

(***************************************************************************)
(* C19: Run invokes gui_definition twice, first with the pass flag true    *)
(* and then with it false; the flag goes from true to false once, between  *)
(* the two invocations, with no group open and the read cursor put at the  *)
(* first cache entry, and does not come back to true while the Run lasts.  *)
(***************************************************************************)
RunOrder ==
  {<<"idle", "layout">>, <<"layout", "render">>, <<"render", "idle">>}

C19_TwoInvocations ==
  /\ [](pc = "layout" => layout_pass_)
  /\ [](pc = "render" => ~layout_pass_)
  /\ [][pc' # pc => (<<pc, pc'>> \in RunOrder \/ pc' = "aborted")]_vars
  /\ [][(layout_pass_ /\ ~layout_pass_') =>
          /\ pc = "layout"
          /\ pc' = "render"
          /\ group_stack_ = <<>>
          /\ element_it_' = 1
          /\ elements_' = elements_]_vars
  /\ [][(~layout_pass_ /\ layout_pass_') => (pc = "render" /\ pc' = "idle")]_vars

C19_Witness ==
  /\ ReplayDone
  /\ ~layout_pass_
  /\ group_stack_ = <<>>
  /\ Len(elements_) = 2
  /\ Len(renderCalls) = 3
  /\ renderCalls[1].fn = "PositionUI"

(***************************************************************************)
(* C20: when AdvanceFrame has returned, the motion delta of each pointer   *)
(* is the sum of the deltas of the motions polled in that call (zero when  *)
(* there were none), each button is down or up as the last event that      *)
(* reported it said (as at the start of the call when none did), and its   *)
(* went_down (went_up) flag is set exactly when an event polled in that    *)
(* call reported it down (up) while it was up (down).                      *)
(***************************************************************************)
RECURSIVE DeltaOf(_, _)
DeltaOf(events, pointer) ==
  IF events = <<>> THEN kZeros2i
  ELSE VAdd(IF Head(events).kind = "motion" /\ Head(events).pointer = pointer
              THEN Head(events).delta
              ELSE kZeros2i,
            DeltaOf(Tail(events), pointer))

ReportsOf(events, key, before) ==
  {j \in 1 .. before - 1 : events[j].kind = "button" /\ events[j].key = key}

Greatest(S) == CHOOSE i \in S : \A j \in S : i >= j

DownBefore(events, key, before, down_at_start) ==
  IF ReportsOf(events, key, before) = {}
    THEN down_at_start
    ELSE events[Greatest(ReportsOf(events, key, before))].down

Went(events, key, down, down_at_start) ==
  \E i \in ReportsOf(events, key, Len(events) + 1) :
    /\ events[i].down = down
    /\ DownBefore(events, key, i, down_at_start) = ~down

ButtonOf(buttons, joysticks, key) ==
  IF key[1] = -1
    THEN IF key[2] \in DOMAIN buttons THEN buttons[key[2]] ELSE NewButton
    ELSE IF key[1] \in DOMAIN joysticks
              /\ key[2] < Len(joysticks[key[1]].button_list_)
           THEN joysticks[key[1]].button_list_[key[2] + 1]
           ELSE NewButton

ButtonKeys ==
  {<<-1, k>> : k \in DOMAIN button_map_}
    \cup UNION {{<<id, b>> :
                   b \in 0 .. Len(joystick_map_[id].button_list_) - 1} :
                id \in DOMAIN joystick_map_}

FrameDone == in_pc = "ready" /\ frames_ > 0

C20_FrameStateIsOfThisFrame ==
  FrameDone =>
    /\ \A p \in 1 .. Len(pointers_) :
         pointers_[p].mousedelta = DeltaOf(h_events, p)
    /\ \A key \in ButtonKeys :
         LET button == ButtonOf(button_map_, joystick_map_, key)
             down_at_start ==
               ButtonOf(h_button_map, h_joystick_map, key).is_down_
         IN /\ button.is_down_ =
                 DownBefore(h_events, key, Len(h_events) + 1, down_at_start)
            /\ button.went_down_ = Went(h_events, key, TRUE, down_at_start)
            /\ button.went_up_ = Went(h_events, key, FALSE, down_at_start)

C20_Witness ==
  /\ FrameDone
  /\ frames_ = 2
  /\ Len(h_events) = 2
  /\ pointers_[1].mousedelta = <<4, -2>>
  /\ SDLK_a \in DOMAIN button_map_
  /\ button_map_[SDLK_a].is_down_
  /\ ~button_map_[SDLK_a].went_down_

(***************************************************************************)
(* C21: when the render pass makes the calls of the layout pass less one   *)
(* Image call or one group with all that is in it, each Image and          *)
(* StartGroup call it makes is given a cache entry, and the size it is     *)
(* given is the size of the entry which that call appended in the layout   *)
(* pass (two calls with the same arguments and the same size are not told  *)
(* apart); a group that comes after a group that was left out is not given *)
(* the size of the placeholder of the group left out.                      *)
(***************************************************************************)
LeftOutWhole(i, j) ==
  \/ layoutCalls[i].fn = "Image" /\ j = i
  \/ /\ layoutCalls[i].fn = "StartGroup"
     /\ j = MatchEnd(layoutCalls, i)
     /\ layoutCalls[j].fn = "EndGroup"

OneLeftOut(made, upto) ==
  \E i \in 1 .. upto - 1 : \E j \in i .. upto - 1 :
    /\ LeftOutWhole(i, j)
    /\ made = SubSeq(layoutCalls, 1, i - 1) \o SubSeq(layoutCalls, j + 1, upto - 1)

KeptElementCall ==
  /\ pc = "render"
  /\ pc' = "render"
  /\ Len(renderCalls') = Len(renderCalls) + 1
  /\ IsElementCall(LastCall(renderCalls'))
  /\ inserted' = 0
  /\ removed' = 1
  /\ OneLeftOut(renderCalls', rpc')

C21_KeptCallsGetOwnEntry ==
  [][KeptElementCall =>
       LET own == ElementIndex(layoutCalls, rpc)
       IN /\ Len(placed') = Len(placed) + 1
          /\ LastCall(placed').size = elements_[own].size]_vars

(***************************************************************************)
(* C22: in a render pass that makes the calls of the layout pass, a child  *)
(* (an image or a group, of a size that is not negative) of a group other  *)
(* than the root group, whose spacing is not negative, is put inside the   *)
(* rectangle of its group: not before the group's position on either axis, *)
(* and ending not after the group's position plus the group's cached size  *)
(* on either axis.                                                         *)
(***************************************************************************)
ChildOfGroupPlaced ==
  /\ ChildPlaced
  /\ Len(group_stack_) >= 1
  /\ group.spacing_ >= 0
  /\ LastCall(placed').size[1] >= 0
  /\ LastCall(placed').size[2] >= 0

Inside(pos, size, origin, extent) ==
  \A d \in 1 .. 2 :
    /\ pos[d] >= origin[d]
    /\ pos[d] + size[d] <= origin[d] + extent[d]

C22_ChildInsideGroup ==
  [][ChildOfGroupPlaced =>
       Inside(LastCall(placed').pos, LastCall(placed').size,
              group.h_origin, CachedSize(group))]_vars

(***************************************************************************)
(* C23: when the first invocation of gui_definition has returned with no   *)
(* group open and Run goes on to StartRenderPass, the cache has the entry  *)
(* elements_[0] whose size StartRenderPass gives to the root group, also   *)
(* when gui_definition declared no image and no group.                     *)
(***************************************************************************)
StartRenderPassReads ==
  /\ pc = "layout"
  /\ group_stack_ = <<>>
  /\ pc' = "render" \/ failed' = "elements_[0]"

C23_SeedEntryExists ==
  [][StartRenderPassReads => Len(elements_) > 0]_vars

(***************************************************************************)
(* C24: the queue of gamepad events never holds more than                  *)
(* kMaxAndroidEventsPerFrame events, however the calls of                  *)
(* ReceiveGamepadEvent by any number of threads and the owner's            *)
(* HandleGamepadEvents interleave; each turn of the loop of                *)
(* HandleGamepadEvents applies the event at the head of the queue and      *)
(* removes it, so that the events are applied in the order they arrived    *)
(* in, and when HandleGamepadEvents returns the queue is empty.            *)
(***************************************************************************)
QueueWithinLimit ==
  Len(unhandled_java_input_events_) <= kMaxAndroidEventsPerFrame

DrainTurn ==
  /\ owner_pc = "loop"
  /\ unhandled_java_input_events_ # <<>>
  /\ owner_pc' = "loop"
  /\ recv_pc' = recv_pc

HandleGamepadEventsReturns ==
  /\ owner_pc = "unlock"
  /\ owner_pc' = "outside"

C24_QueueBoundedAndDrained ==
  /\ []QueueWithinLimit
  /\ [][DrainTurn =>
          /\ unhandled_java_input_events_' = Tail(unhandled_java_input_events_)
          /\ gamepad_map_' =
               ApplyGamepadEvent(gamepad_map_,
                                 Head(unhandled_java_input_events_))]_vars
  /\ [][HandleGamepadEventsReturns => unhandled_java_input_events_' = <<>>]_vars

====
